---- MODULE Spec2Model ----
(***************************************************************************)
(* State-machine model of the Ory OAuth provider adapter, OryProvider     *)
(* (src/src/index.ts).  A provider is constructed from an options object  *)
(* and then serves asynchronous operations.  Every operation runs in a    *)
(* call slot; it suspends at each `await fetch(...)` and resumes when the *)
(* backend's response arrives.                                             *)
(*                                                                         *)
(* JavaScript strings built by template literals are sequences of their   *)
(* parts (<<"Bearer ", key>>); JavaScript values that a lookup can return *)
(* are records tagged by `type`.                                           *)
(***************************************************************************)
EXTENDS Integers, Sequences, FiniteSets, TLC

VARIABLES options, provider, calls, accessControl, server

vars == <<options, provider, calls, accessControl, server>>

(***************************************************************************)
(* Bounds of the model.                                                    *)
(***************************************************************************)
\* most identities the identity backend holds
MaxIdentities == 2

\* most SSE connections made to the example server
MaxConnections == 2

\* longest client list a backend response carries
MaxClients == 2

\* the call slot of the sequential specification
Calls == {1}

(***************************************************************************)
(* Values.                                                                 *)
(***************************************************************************)
\* the JavaScript value undefined, where a string is expected
Undefined == "<undefined>"

\* the JavaScript value undefined, as the result of a lookup or a call
UndefinedV == [type |-> "undefined"]

\* Object.prototype, the prototype of the literal {} the client mapping starts as
ObjectPrototypeV == [type |-> "builtin", name |-> "Object.prototype"]

\* `${x}`: a template literal converts undefined to the text "undefined"
ToStr(x) == IF x = Undefined THEN "undefined" ELSE x

\* JavaScript truthiness of an optional string: undefined and "" are falsy
TruthyStr(x) == x # Undefined /\ x # ""

\* JavaScript truthiness of a looked-up value: objects and functions are truthy
Truthy(v) ==
  CASE v.type = "undefined" -> FALSE
    [] v.type = "string" -> v.value # ""
    [] OTHER -> TRUE

\* all sequences over S of length at most n
SeqsUpTo(S, n) == UNION {[1..k -> S] : k \in 0..n}

\* the hexadecimal digits, by value
HexDigits ==
  <<"0", "1", "2", "3", "4", "5", "6", "7", "8", "9", "a", "b", "c", "d", "e", "f">>

\* Buffer.toString('hex'): two digits for each byte, the high one first
Hex(bytes) ==
  [i \in 1..(2 * Len(bytes)) |->
     LET b == bytes[(i + 1) \div 2]
     IN  IF i % 2 = 1 THEN HexDigits[(b \div 16) + 1] ELSE HexDigits[(b % 16) + 1]]

\* a string as a text: the sequence of its parts, a space being a part of its own
Text(x) == <<ToStr(x)>>

\* Array.prototype.join(' ') of a list of strings, as a text
RECURSIVE Join(_)
Join(list) ==
  IF list = <<>> THEN <<>>
  ELSE IF Len(list) = 1 THEN <<list[1]>>
  ELSE <<list[1], " ">> \o Join(Tail(list))

\* application/x-www-form-urlencoded serialisation of one part of a text, as
\* URLSearchParams.toString() performs it: a space becomes "+", every other character
\* outside the unreserved set is percent-encoded
FormEncodePart(part) ==
  CASE part = " " -> "+"
    [] part = "+" -> "%2B"
    [] part = "http://localhost:3000/callback" -> "http%3A%2F%2Flocalhost%3A3000%2Fcallback"
    [] part = "app://cb?x=1" -> "app%3A%2F%2Fcb%3Fx%3D1"
    [] OTHER -> part

FormEncode(text) == [i \in 1..Len(text) |-> FormEncodePart(text[i])]

(***************************************************************************)
(* Input domains.                                                          *)
(***************************************************************************)
ProviderTypes == {"network", "hydra"}

HydraAdminUrls == {Undefined, "", "https://hydra.example.com/admin"}
HydraApiKeys == {Undefined, "hydra-api-key"}
NetworkProjectUrls == {Undefined, "", "https://network.example.com/admin"}
NetworkProjectApiKeys == {Undefined, "network-api-key"}

AuthorizationUrl == "https://auth.example.com/oauth2/auth"
TokenUrl == "https://auth.example.com/oauth2/token"
RevocationUrls == {Undefined, "", "https://auth.example.com/oauth2/revoke"}
RegistrationUrls == {Undefined, "", "https://auth.example.com/clients"}

\* OryEndpoints
EndpointsSpace ==
  [authorizationUrl : {AuthorizationUrl},
   tokenUrl : {TokenUrl},
   revocationUrl : RevocationUrls,
   registrationUrl : RegistrationUrls]

\* OryOptions: every field combination the type admits
OptionsSpace ==
  [endpoints : EndpointsSpace,
   providerType : ProviderTypes,
   hydraAdminUrl : HydraAdminUrls,
   hydraApiKey : HydraApiKeys,
   networkProjectUrl : NetworkProjectUrls,
   networkProjectApiKey : NetworkProjectApiKeys]

\* client ids asked for, and client ids an introspection reports
ClientIds == {"test-client", "another-client-id", "constructor", "__proto__"}

Tokens == {"test-token", "inactive-token"}

\* own properties of Object.prototype that every {} inherits
ObjectPrototypeKeys ==
  {"constructor", "toString", "valueOf", "hasOwnProperty", "isPrototypeOf",
   "propertyIsEnumerable", "toLocaleString"}

RedirectUris == <<"http://localhost:3000/callback">>

\* elements of the JSON array the list-clients endpoint answers with
RawClients ==
  { [client_id |-> "test-client", client_secret |-> "test-secret",
     redirect_uris |-> RedirectUris, extra |-> Undefined],
    [client_id |-> "test-client", client_secret |-> Undefined,
     redirect_uris |-> RedirectUris, extra |-> "unknown-key"],
    [client_id |-> "__proto__", client_secret |-> Undefined,
     redirect_uris |-> RedirectUris, extra |-> Undefined],
    [client_id |-> Undefined, client_secret |-> Undefined,
     redirect_uris |-> RedirectUris, extra |-> Undefined] }

ClientLists == SeqsUpTo(RawClients, MaxClients)

\* clients a caller passes in (OAuthClientInformationFull): a confidential client, a
\* public client with two redirect URIs, and a client with an empty secret and no
\* redirect URI
Clients ==
  { [type |-> "client", client_id |-> "test-client", client_secret |-> "test-secret",
     redirect_uris |-> RedirectUris],
    [type |-> "client", client_id |-> "another-client-id", client_secret |-> Undefined,
     redirect_uris |-> <<"app://cb?x=1", "http://localhost:3000/callback">>],
    [type |-> "client", client_id |-> "test-client", client_secret |-> "",
     redirect_uris |-> <<>>] }

NoClient ==
  [type |-> "client", client_id |-> Undefined, client_secret |-> Undefined,
   redirect_uris |-> <<>>]

\* an absent optional text (AuthorizationParams.state) and an absent optional list
\* (scopes)
NoState == <<Undefined>>
NoScopes == <<Undefined>>

\* JavaScript truthiness of an optional text
TruthyText(t) == t # NoState /\ t # <<>>

\* `scopes?.length` as a condition: the length of the list, undefined counting as 0
OptLength(list) == IF list = NoScopes THEN 0 ELSE Len(list)

\* AuthorizationParams a caller passes to authorize
AuthorizationParamsSpace ==
  [state : {NoState, <<>>, <<"state123">>, <<"a", "+", "b">>},
   scopes : {NoScopes, <<>>, <<"openid", "profile">>},
   redirectUri : {"http://localhost:3000/callback"},
   codeChallenge : {"challenge"}]

\* code verifiers, refresh tokens and scope lists a caller presents
CodeVerifiers == {Undefined, "", "verifier"}
RefreshTokens == {"refresh_token"}
ScopeLists == {NoScopes, <<>>, <<"openid", "profile">>}

\* JSON bodies of the token endpoint: the tokens of the tests, tokens with a refresh
\* token and an unknown key, and a body without access_token
TokenBodies ==
  { [access_token |-> "acc_token", token_type |-> "Bearer", expires_in |-> 3600,
     refresh_token |-> Undefined, extra |-> Undefined],
    [access_token |-> "new_acc_token", token_type |-> "Bearer", expires_in |-> 3600,
     refresh_token |-> "new_refresh_token", extra |-> "unknown-key"],
    [access_token |-> Undefined, token_type |-> "Bearer", expires_in |-> 3600,
     refresh_token |-> Undefined, extra |-> Undefined] }

NoTokenBody ==
  [access_token |-> Undefined, token_type |-> Undefined, expires_in |-> 0,
   refresh_token |-> Undefined, extra |-> Undefined]

\* OAuthTokenRevocationRequest a caller passes to revokeToken
RevocationRequests == [token : Tokens, token_type_hint : {Undefined, "", "refresh_token"}]

NoRevocationRequest == [token |-> Undefined, token_type_hint |-> Undefined]

\* authorization codes a caller presents
AuthorizationCodes == {"auth_code", "other_code"}

NoParams ==
  [state |-> NoState, scopes |-> NoScopes, redirectUri |-> Undefined,
   codeChallenge |-> Undefined]

\* number of bytes crypto.randomBytes is asked for
RandomBytesLength == 32

\* outcomes of crypto.randomBytes(32): any 32 bytes; a constant low, middle and high
\* byte and a varying pattern stand for them
RandomBytesOutcomes ==
  {[i \in 1..RandomBytesLength |-> b] : b \in {0, 171, 255}}
    \cup {[i \in 1..RandomBytesLength |-> (i * 37) % 256]}

\* an absent `scope` member of the introspection result
NoScope == <<Undefined>>

\* a scope (a string as the sequence of its words and spaces) and an expiry, as the
\* backend pairs them
ScopeExps ==
  { <<NoScope, 1700000000>>, <<<<>>, 1700003600>>,
    <<<<"openid", " ", "profile">>, 1700000000>>,
    <<<<"openid", " ", " ", "email">>, 1700003600>> }

\* JSON bodies of the introspection endpoint
Introspections ==
  { [active |-> a, client_id |-> id, scope |-> se[1], exp |-> se[2]] :
      a \in BOOLEAN, id \in ClientIds, se \in ScopeExps }

\* the introspection local before the response has arrived
NoIntrospection == [active |-> FALSE, client_id |-> Undefined, scope |-> NoScope, exp |-> 0]

\* HTTP status lines a backend answers with
StatusLines ==
  { [status |-> 200, statusText |-> "OK"],
    [status |-> 201, statusText |-> "Created"],
    [status |-> 401, statusText |-> "Unauthorized"],
    [status |-> 500, statusText |-> "Server Error"] }

\* Response.ok
Ok(resp) == resp.status >= 200 /\ resp.status <= 299

\* `${response.status}`: the decimal digits of the status
StatusCode(resp) ==
  CASE resp.status = 200 -> "200"
    [] resp.status = 201 -> "201"
    [] resp.status = 401 -> "401"
    [] resp.status = 500 -> "500"

NoResponse == [kind |-> "none"]

\* a fetch either rejects (network failure) or resolves to an HTTP response
ClientsResponses ==
  {[kind |-> "rejected"]}
    \cup {[kind |-> "http", status |-> s.status, statusText |-> s.statusText, json |-> <<>>] :
            s \in {l \in StatusLines : ~Ok(l)}}
    \cup {[kind |-> "http", status |-> 200, statusText |-> "OK", json |-> l] : l \in ClientLists}

IntrospectResponses ==
  {[kind |-> "rejected"]}
    \cup {[kind |-> "http", status |-> s.status, statusText |-> s.statusText,
           json |-> NoIntrospection] : s \in {l \in StatusLines : ~Ok(l)}}
    \cup {[kind |-> "http", status |-> 200, statusText |-> "OK", json |-> i] :
            i \in Introspections}

\* responses of the token endpoint
TokenResponses ==
  {[kind |-> "rejected"]}
    \cup {[kind |-> "http", status |-> s.status, statusText |-> s.statusText,
           json |-> NoTokenBody] : s \in {l \in StatusLines : ~Ok(l)}}
    \cup {[kind |-> "http", status |-> s.status, statusText |-> s.statusText, json |-> b] :
            s \in {l \in StatusLines : Ok(l)}, b \in TokenBodies}

\* responses of the revocation endpoint, whose body is not read
RevocationResponses ==
  {[kind |-> "rejected"]}
    \cup {[kind |-> "http", status |-> s.status, statusText |-> s.statusText] :
            s \in StatusLines}

\* the body of a registration response that is not read
NoRawClient ==
  [client_id |-> Undefined, client_secret |-> Undefined, redirect_uris |-> <<>>,
   extra |-> Undefined]

\* responses of the registration endpoint
RegistrationResponses ==
  {[kind |-> "rejected"]}
    \cup {[kind |-> "http", status |-> s.status, statusText |-> s.statusText,
           json |-> NoRawClient] : s \in {l \in StatusLines : ~Ok(l)}}
    \cup {[kind |-> "http", status |-> s.status, statusText |-> s.statusText, json |-> raw] :
            s \in {l \in StatusLines : Ok(l)}, raw \in RawClients}

(***************************************************************************)
(* Errors, requests and results.                                           *)
(***************************************************************************)
\* new Error(message); a message is the sequence of its words, a value a template
\* literal embeds being one word
Error(msg) == [type |-> "error", name |-> "Error", message |-> msg]

\* new ServerError(message), the OAuth error of the SDK
ServerError(msg) == [type |-> "error", name |-> "ServerError", message |-> msg]

\* the ZodError a failed Schema.parse throws
ZodError == [type |-> "error", name |-> "ZodError", message |-> <<"Required">>]

\* the TypeError a rejected fetch throws
FetchFailed == [type |-> "error", name |-> "TypeError", message |-> <<"fetch failed">>]

NoError == [type |-> "error", name |-> "none", message |-> <<>>]

\* 'Hydra admin URL is required for hydra provider type'
HydraUrlRequired ==
  <<"Hydra", "admin", "URL", "is", "required", "for", "hydra", "provider", "type">>

\* 'Network project URL is required for network provider type'
NetworkUrlRequired ==
  <<"Network", "project", "URL", "is", "required", "for", "network", "provider", "type">>

NoRequest == [method |-> "none"]

\* a URL: the address and the query the search string serialises
NoUrl == [base |-> Undefined, search |-> <<>>]

\* a code fragment that threw e
Throws(e) == [throws |-> TRUE, error |-> e, request |-> NoRequest, clients |-> <<>>,
              json |-> NoIntrospection]

\* a code fragment that reached fetch(r)
Fetches(r) == [throws |-> FALSE, error |-> NoError, request |-> r, clients |-> <<>>,
               json |-> NoIntrospection]

\* the state of a call: the operation and its arguments, where it is suspended, the
\* fetch calls it has issued, its locals, what it logged and how it ended
IdleCall ==
  [op |-> "none", pc |-> "idle", clientId |-> Undefined, token |-> Undefined,
   fetches |-> <<>>, introspectResponse |-> NoResponse,
   introspection |-> NoIntrospection, clientsResponse |-> NoResponse,
   logged |-> <<>>, outcome |-> "none", value |-> UndefinedV, error |-> NoError,
   client |-> NoClient, params |-> NoParams, paramsGiven |-> NoParams,
   random |-> <<>>, targetUrl |-> NoUrl, redirects |-> <<>>,
   authorizationCode |-> Undefined, codeVerifier |-> Undefined,
   refreshToken |-> Undefined, scopes |-> NoScopes, response |-> NoResponse,
   request |-> NoRevocationRequest]

\* the call returned v
Returned(call, v) == [call EXCEPT !.pc = "done", !.outcome = "return", !.value = v]

\* catch sites that throw a new error carrying their label instead of the one caught
ThrownWrapped(call, e, sites) ==
  [call EXCEPT !.pc = "done", !.outcome = "throw",
               !.error = IF sites = <<>> THEN e
                         ELSE Error(<<sites[Len(sites)]>> \o e.message),
               !.logged = call.logged \o sites]

\* the call threw e, which the catch sites in `sites` logged on its way out
Thrown(call, e, sites) ==
  [call EXCEPT !.pc = "done", !.outcome = "throw", !.error = e,
               !.logged = call.logged \o sites]

(***************************************************************************)
(* OryProvider: constructor and clientsStore.                              *)
(***************************************************************************)
\* a constructor that keeps only the backend pair of providerType
ConstructorExclusivePairs(opts) ==
  [_endpoints |-> opts.endpoints,
   _providerType |-> opts.providerType,
   _hydraAdminUrl |-> IF opts.providerType = "hydra" THEN opts.hydraAdminUrl ELSE Undefined,
   _hydraApiKey |-> IF opts.providerType = "hydra" THEN opts.hydraApiKey ELSE Undefined,
   _networkProjectUrl |->
     IF opts.providerType = "network" THEN opts.networkProjectUrl ELSE Undefined,
   _networkProjectApiKey |->
     IF opts.providerType = "network" THEN opts.networkProjectApiKey ELSE Undefined,
   skipLocalPasswordGrant |-> FALSE,
   skipLocalPkceValidation |-> TRUE,
   revokeToken |-> IF TruthyStr(opts.endpoints.revocationUrl) THEN "function" ELSE Undefined]

\* constructor(options): copies the options and attaches revokeToken if and only if
\* endpoints.revocationUrl is truthy
Constructor(opts) ==
  [_endpoints |-> opts.endpoints,
   _providerType |-> opts.providerType,
   _hydraAdminUrl |-> opts.hydraAdminUrl,
   _hydraApiKey |-> opts.hydraApiKey,
   _networkProjectUrl |-> opts.networkProjectUrl,
   _networkProjectApiKey |-> opts.networkProjectApiKey,
   skipLocalPasswordGrant |-> FALSE,
   skipLocalPkceValidation |-> TRUE,
   revokeToken |-> IF TruthyStr(opts.endpoints.revocationUrl) THEN "function" ELSE Undefined]

\* a clientsStore that offers registerClient whatever the endpoints are
ClientsStoreAlwaysRegisters(p) == [getClient |-> "function", registerClient |-> "function"]

\* get clientsStore(): getClient always, registerClient spread in only when
\* registrationUrl is truthy
ClientsStore(p) ==
  [getClient |-> "function",
   registerClient |-> IF TruthyStr(p._endpoints.registrationUrl) THEN "function"
                      ELSE Undefined]

(***************************************************************************)
(* fetchClients, listOAuth2Clients and the lookup in the mapping.          *)
(***************************************************************************)
\* a fetchClients whose hydra branch was copied from the network branch and kept
\* the network API key
FetchClientsRequestWrongKey(p) ==
  IF p._providerType = "hydra" THEN
    IF ~TruthyStr(p._hydraAdminUrl)
    THEN Throws(Error(HydraUrlRequired))
    ELSE Fetches([method |-> "GET",
                  url |-> <<ToStr(p._hydraAdminUrl), "/admin/clients">>,
                  authorization |-> <<"Bearer ", ToStr(p._networkProjectApiKey)>>,
                  contentType |-> "application/json"])
  ELSE IF ~TruthyStr(p._networkProjectUrl)
  THEN Throws(Error(NetworkUrlRequired))
  ELSE Fetches([method |-> "GET",
                url |-> <<ToStr(p._networkProjectUrl), "/admin/clients">>,
                authorization |-> <<"Bearer ", ToStr(p._networkProjectApiKey)>>,
                contentType |-> "application/json"])

\* fetchClients up to its fetch: the branch on _providerType, the check of the admin
\* URL and the request
FetchClientsRequest(p) ==
  IF p._providerType = "hydra" THEN
    IF ~TruthyStr(p._hydraAdminUrl)
    THEN Throws(Error(HydraUrlRequired))
    ELSE Fetches([method |-> "GET",
                  url |-> <<ToStr(p._hydraAdminUrl), "/admin/clients">>,
                  authorization |-> <<"Bearer ", ToStr(p._hydraApiKey)>>,
                  contentType |-> "application/json"])
  ELSE IF p._providerType = "network" THEN
    IF ~TruthyStr(p._networkProjectUrl)
    THEN Throws(Error(NetworkUrlRequired))
    ELSE Fetches([method |-> "GET",
                  url |-> <<ToStr(p._networkProjectUrl), "/admin/clients">>,
                  authorization |-> <<"Bearer ", ToStr(p._networkProjectApiKey)>>,
                  contentType |-> "application/json"])
  ELSE Throws(Error(<<"Invalid", "provider", "type">>))

\* OAuthClientInformationFullSchema accepts an element that has its required client_id
SchemaAccepts(raw) == raw.client_id # Undefined

\* OAuthClientInformationFullSchema.parse(raw): the known keys of an accepted element
SchemaParse(raw) ==
  [type |-> "client", client_id |-> raw.client_id, client_secret |-> raw.client_secret,
   redirect_uris |-> raw.redirect_uris]

\* a map that leaves out the elements the schema refuses
ParseClientsSkippingMalformed(data) ==
  LET accepted == SelectSeq(data, SchemaAccepts)
  IN  [Throws(NoError) EXCEPT !.throws = FALSE,
         !.clients = [i \in 1..Len(accepted) |-> SchemaParse(accepted[i])]]

\* data.map(client => OAuthClientInformationFullSchema.parse(client)): the first
\* element the schema refuses makes parse throw out of the map
ParseClients(data) ==
  IF \E i \in 1..Len(data) : ~SchemaAccepts(data[i])
  THEN Throws(ZodError)
  ELSE [Throws(NoError) EXCEPT !.throws = FALSE,
          !.clients = [i \in 1..Len(data) |-> SchemaParse(data[i])]]

\* a fetchClients that takes a failed listing for an empty list
FetchClientsParseNoStatusCheck(resp) ==
  IF resp.kind = "rejected" THEN Throws(FetchFailed)
  ELSE ParseClients(resp.json)

\* fetchClients from the response on: the status check, then every element parsed
FetchClientsParse(resp) ==
  IF resp.kind = "rejected" THEN Throws(FetchFailed)
  ELSE IF ~Ok(resp)
  THEN Throws(Error(<<"Failed", "to", "list", "OAuth2", "clients:", resp.statusText>>))
  ELSE ParseClients(resp.json)

\* the accumulator {} of the reduce: no own properties, prototype Object.prototype
EmptyMapping == [own |-> <<>>, proto |-> ObjectPrototypeV]

\* acc[client.client_id] = client: an own property, except that assigning the key
\* __proto__ replaces the prototype of acc
Assign(acc, client) ==
  IF client.client_id = "__proto__"
  THEN [acc EXCEPT !.proto = client]
  ELSE [acc EXCEPT !.own = (client.client_id :> client) @@ acc.own]

RECURSIVE ReduceFrom(_, _, _)
ReduceFrom(acc, clients, i) ==
  IF i > Len(clients) THEN acc ELSE ReduceFrom(Assign(acc, clients[i]), clients, i + 1)

\* listOAuth2Clients: clients.reduce(acc[client.client_id] = client, {})
ListOAuth2ClientsReduce(clients) == ReduceFrom(EmptyMapping, clients, 1)

\* a string member of a client, as a value
StringV(s) == IF s = Undefined THEN UndefinedV ELSE [type |-> "string", value |-> s]

\* clients[key]: an own property, else the prototype chain
Lookup(mapping, key) ==
  IF key \in DOMAIN mapping.own THEN mapping.own[key]
  ELSE IF key = "__proto__" THEN mapping.proto
  ELSE IF mapping.proto.type = "client" /\ key = "client_id"
  THEN StringV(mapping.proto.client_id)
  ELSE IF mapping.proto.type = "client" /\ key = "client_secret"
  THEN StringV(mapping.proto.client_secret)
  ELSE IF key \in ObjectPrototypeKeys THEN [type |-> "builtin", name |-> key]
  ELSE UndefinedV

\* the catch sites a failure of the client listing passes on its way out of op
ListCatchSites(op) ==
  IF op = "getClient"
  THEN <<"Error listing OAuth2 clients:", "Error getting client:">>
  ELSE <<"Error listing OAuth2 clients:", "Token verification failed:">>

(***************************************************************************)
(* introspectToken and verifyAccessToken.                                  *)
(***************************************************************************)
\* Buffer.from(token).toString('base64')
Base64(token) ==
  CASE token = "test-token" -> "dGVzdC10b2tlbg=="
    [] token = "inactive-token" -> "aW5hY3RpdmUtdG9rZW4="
    [] OTHER -> "dW5kZWZpbmVk"

\* new URLSearchParams({token, token_type_hint: 'access_token'})
IntrospectBody(token) == [token |-> token, token_type_hint |-> "access_token"]

\* an introspectToken that authenticates to Hydra with the API key, as fetchClients does
IntrospectTokenRequestBearerForHydra(p, token) ==
  IF p._providerType = "hydra" THEN
    IF ~TruthyStr(p._hydraAdminUrl)
    THEN Throws(Error(HydraUrlRequired))
    ELSE Fetches([method |-> "POST",
                  url |-> <<ToStr(p._hydraAdminUrl), "/admin/oauth2/introspect">>,
                  authorization |-> <<"Bearer ", ToStr(p._hydraApiKey)>>,
                  contentType |-> "application/x-www-form-urlencoded",
                  body |-> IntrospectBody(token)])
  ELSE IF p._providerType = "network" THEN
    IF ~TruthyStr(p._networkProjectUrl)
    THEN Throws(Error(NetworkUrlRequired))
    ELSE Fetches([method |-> "POST",
                  url |-> <<ToStr(p._networkProjectUrl), "/admin/oauth2/introspect">>,
                  authorization |-> <<"Bearer ", ToStr(p._networkProjectApiKey)>>,
                  contentType |-> "application/x-www-form-urlencoded",
                  body |-> IntrospectBody(token)])
  ELSE Throws(Error(<<"Invalid", "provider", "type">>))

\* introspectToken up to its fetch: the branch on _providerType, the check of the
\* admin URL and the request
IntrospectTokenRequest(p, token) ==
  IF p._providerType = "hydra" THEN
    IF ~TruthyStr(p._hydraAdminUrl)
    THEN Throws(Error(HydraUrlRequired))
    ELSE Fetches([method |-> "POST",
                  url |-> <<ToStr(p._hydraAdminUrl), "/admin/oauth2/introspect">>,
                  authorization |-> <<"Basic ", Base64(token)>>,
                  contentType |-> "application/x-www-form-urlencoded",
                  body |-> IntrospectBody(token)])
  ELSE IF p._providerType = "network" THEN
    IF ~TruthyStr(p._networkProjectUrl)
    THEN Throws(Error(NetworkUrlRequired))
    ELSE Fetches([method |-> "POST",
                  url |-> <<ToStr(p._networkProjectUrl), "/admin/oauth2/introspect">>,
                  authorization |-> <<"Bearer ", ToStr(p._networkProjectApiKey)>>,
                  contentType |-> "application/x-www-form-urlencoded",
                  body |-> IntrospectBody(token)])
  ELSE Throws(Error(<<"Invalid", "provider", "type">>))

\* an introspectToken that reports the numeric status, as the token exchanges do
IntrospectTokenParseStatusCode(resp) ==
  IF resp.kind = "rejected" THEN Throws(FetchFailed)
  ELSE IF ~Ok(resp)
  THEN Throws(Error(<<"Token", "introspection", "failed:", StatusCode(resp)>>))
  ELSE [Throws(NoError) EXCEPT !.throws = FALSE, !.json = resp.json]

\* introspectToken from the response on: the status check, then the JSON body
IntrospectTokenParse(resp) ==
  IF resp.kind = "rejected" THEN Throws(FetchFailed)
  ELSE IF ~Ok(resp)
  THEN Throws(Error(<<"Token", "introspection", "failed:", resp.statusText>>))
  ELSE [Throws(NoError) EXCEPT !.throws = FALSE, !.json = resp.json]

\* the index of the first " " of s, 0 if it has none
FirstSpace(s) ==
  IF \E i \in 1..Len(s) : s[i] = " "
  THEN CHOOSE i \in 1..Len(s) : s[i] = " " /\ \A j \in 1..(i - 1) : s[j] # " "
  ELSE 0

RECURSIVE Split(_)
\* s.split(' '): the segments between the spaces of s, [''] for the empty string
Split(s) ==
  IF FirstSpace(s) = 0 THEN <<s>>
  ELSE <<SubSeq(s, 1, FirstSpace(s) - 1)>> \o Split(SubSeq(s, FirstSpace(s) + 1, Len(s)))

\* an AuthInfo whose scopes are the scope string unsplit
AuthInfoUnsplit(token, introspection) ==
  [type |-> "authInfo",
   token |-> token,
   clientId |-> introspection.client_id,
   scopes |-> IF introspection.scope = NoScope THEN <<>> ELSE <<introspection.scope>>,
   expiresAt |-> introspection.exp]

\* the AuthInfo verifyAccessToken returns
AuthInfo(token, introspection) ==
  [type |-> "authInfo",
   token |-> token,
   clientId |-> introspection.client_id,
   scopes |-> IF introspection.scope = NoScope THEN <<>> ELSE Split(introspection.scope),
   expiresAt |-> introspection.exp]

(***************************************************************************)
(* The steps of a call: from its start or from a response to its next      *)
(* fetch or to its end.                                                    *)
(***************************************************************************)
\* the call has issued fetch(r) and waits at pc for the response
Awaiting(call, r, pc) == [call EXCEPT !.pc = pc, !.fetches = Append(call.fetches, r)]

\* a getClient that answers from the list another call has fetched, when there is one
GetClientStartCached(p, clientId) ==
  LET call == [IdleCall EXCEPT !.op = "getClient", !.clientId = clientId]
      f == FetchClientsRequest(p)
      cached == {d \in DOMAIN calls :
                   /\ calls[d].clientsResponse.kind = "http"
                   /\ ~FetchClientsParse(calls[d].clientsResponse).throws}
      list == FetchClientsParse(calls[CHOOSE d \in cached : TRUE].clientsResponse).clients
  IN  IF cached # {} THEN Returned(call, Lookup(ListOAuth2ClientsReduce(list), clientId))
      ELSE IF f.throws THEN Thrown(call, f.error, ListCatchSites("getClient"))
      ELSE Awaiting(call, f.request, "clientLookup")

\* getClient(clientId) -> listOAuth2Clients() -> fetchClients(), up to the fetch
GetClientStart(p, clientId) ==
  LET call == [IdleCall EXCEPT !.op = "getClient", !.clientId = clientId]
      f == FetchClientsRequest(p)
  IN  IF f.throws THEN Thrown(call, f.error, ListCatchSites("getClient"))
      ELSE Awaiting(call, f.request, "clientLookup")

\* verifyAccessToken(token) -> introspectToken(token), up to the fetch
VerifyStart(p, token) ==
  LET call == [IdleCall EXCEPT !.op = "verifyAccessToken", !.token = token]
      f == IntrospectTokenRequest(p, token)
  IN  IF f.throws THEN Thrown(call, f.error, <<"Token verification failed:">>)
      ELSE Awaiting(call, f.request, "introspecting")

\* a verifyAccessToken that goes on to the client lookup whatever `active` says
VerifyAfterIntrospectionNoActiveCheck(p, call, resp) ==
  LET r == IntrospectTokenParse(resp)
      had == [call EXCEPT !.introspectResponse = resp]
      got == [had EXCEPT !.introspection = r.json]
      f == FetchClientsRequest(p)
  IN  IF r.throws THEN Thrown(had, r.error, <<"Token verification failed:">>)
      ELSE IF f.throws THEN Thrown(got, f.error, ListCatchSites("verifyAccessToken"))
      ELSE Awaiting(got, f.request, "clientLookup")

\* verifyAccessToken from the introspection response on: the active check, then
\* listOAuth2Clients() -> fetchClients() up to the fetch
VerifyAfterIntrospection(p, call, resp) ==
  LET r == IntrospectTokenParse(resp)
      had == [call EXCEPT !.introspectResponse = resp]
      got == [had EXCEPT !.introspection = r.json]
      f == FetchClientsRequest(p)
  IN  IF r.throws THEN Thrown(had, r.error, <<"Token verification failed:">>)
      ELSE IF ~r.json.active
      THEN Thrown(got, Error(<<"Token", "is", "not", "active">>), <<"Token verification failed:">>)
      ELSE IF f.throws THEN Thrown(got, f.error, ListCatchSites("verifyAccessToken"))
      ELSE Awaiting(got, f.request, "clientLookup")

\* the end of getClient: clients[clientId]
GetClientEnd(call, mapping) == Returned(call, Lookup(mapping, call.clientId))

\* the end of verifyAccessToken: clients[introspection.client_id], the check of the
\* client found and the AuthInfo
VerifyEnd(call, mapping) ==
  IF ~Truthy(Lookup(mapping, call.introspection.client_id))
  THEN Thrown(call, Error(<<"Token", "client", "ID", "mismatch">>), <<"Token verification failed:">>)
  ELSE Returned(call, AuthInfo(call.token, call.introspection))

\* a listOAuth2Clients that adds the clients to a mapping the calls share
AfterClientsSharedMapping(call, resp) ==
  LET r == FetchClientsParse(resp)
      got == [call EXCEPT !.clientsResponse = resp]
      others == {d \in DOMAIN calls :
                   /\ calls[d] # call
                   /\ calls[d].clientsResponse.kind = "http"
                   /\ ~FetchClientsParse(calls[d].clientsResponse).throws}
      shared == IF others = {} THEN <<>>
                ELSE FetchClientsParse(calls[CHOOSE d \in others : TRUE].clientsResponse).clients
      mapping == ListOAuth2ClientsReduce(shared \o r.clients)
  IN  IF r.throws THEN Thrown(got, r.error, ListCatchSites(call.op))
      ELSE IF call.op = "getClient" THEN GetClientEnd(got, mapping)
      ELSE VerifyEnd(got, mapping)

\* either operation from the list-clients response on
AfterClients(call, resp) ==
  LET r == FetchClientsParse(resp)
      got == [call EXCEPT !.clientsResponse = resp]
      mapping == ListOAuth2ClientsReduce(r.clients)
  IN  IF r.throws THEN Thrown(got, r.error, ListCatchSites(call.op))
      ELSE IF call.op = "getClient" THEN GetClientEnd(got, mapping)
      ELSE VerifyEnd(got, mapping)

(***************************************************************************)
(* authorize and challengeForAuthorizationCode.                            *)
(***************************************************************************)
\* URLSearchParams.set(name, value): the first entry of that name takes the value and
\* the others go; without one the entry is appended
SearchParamsSet(sp, name, value) ==
  IF \E i \in 1..Len(sp) : sp[i].name = name
  THEN LET first == CHOOSE i \in 1..Len(sp) :
                      sp[i].name = name /\ \A j \in 1..(i - 1) : sp[j].name # name
           kept == SelectSeq([i \in 1..Len(sp) |-> [at |-> i, entry |-> sp[i]]],
                             LAMBDA e : e.entry.name # name \/ e.at = first)
       IN  [i \in 1..Len(kept) |->
              IF kept[i].at = first THEN [name |-> name, value |-> value]
              ELSE kept[i].entry]
  ELSE Append(sp, [name |-> name, value |-> value])

\* URLSearchParams.toString(): every value form-encoded, in insertion order
SearchParamsToString(sp) ==
  [i \in 1..Len(sp) |-> [name |-> sp[i].name, value |-> FormEncode(sp[i].value)]]

\* an authorize that leaves an unset state unset
AuthorizeStateAsGiven(params, bytes) == params.state

\* authorize, the state: 32 random bytes in hex when params.state is falsy
AuthorizeState(params, bytes) ==
  IF ~TruthyText(params.state) THEN Hex(bytes) ELSE params.state

\* an authorize without the default scope
AuthorizeScopesNoDefault(params) == params.scopes

\* authorize, the scopes: ['ory.admin'] when params.scopes is the empty list
AuthorizeScopes(params) ==
  IF params.scopes # NoScopes /\ Len(params.scopes) = 0 THEN <<"ory.admin">>
  ELSE params.scopes

\* an authorize that announces a plain code challenge
AuthorizeSearchParamsPlain(client, params) ==
  LET fixed == << [name |-> "client_id", value |-> Text(client.client_id)],
                  [name |-> "response_type", value |-> <<"code">>],
                  [name |-> "redirect_uri", value |-> Text(params.redirectUri)],
                  [name |-> "code_challenge", value |-> Text(params.codeChallenge)],
                  [name |-> "code_challenge_method", value |-> <<"plain">>] >>
      withState == IF TruthyText(params.state)
                   THEN SearchParamsSet(fixed, "state", params.state) ELSE fixed
  IN  IF OptLength(params.scopes) > 0
      THEN SearchParamsSet(withState, "scope", Join(params.scopes)) ELSE withState

\* authorize, the query: the five fixed parameters, then state and scope when present
AuthorizeSearchParams(client, params) ==
  LET fixed == << [name |-> "client_id", value |-> Text(client.client_id)],
                  [name |-> "response_type", value |-> <<"code">>],
                  [name |-> "redirect_uri", value |-> Text(params.redirectUri)],
                  [name |-> "code_challenge", value |-> Text(params.codeChallenge)],
                  [name |-> "code_challenge_method", value |-> <<"S256">>] >>
      withState == IF TruthyText(params.state)
                   THEN SearchParamsSet(fixed, "state", params.state) ELSE fixed
  IN  IF OptLength(params.scopes) > 0
      THEN SearchParamsSet(withState, "scope", Join(params.scopes)) ELSE withState

\* an authorize that keeps its defaults in locals and leaves params as it was given
AuthorizeStartLocalDefaults(p, client, params, bytes) ==
  LET stated == [params EXCEPT !.state = AuthorizeState(params, bytes)]
      scoped == [stated EXCEPT !.scopes = AuthorizeScopes(stated)]
  IN  [IdleCall EXCEPT !.op = "authorize", !.pc = "sleeping", !.client = client,
         !.paramsGiven = params, !.params = params,
         !.random = IF ~TruthyText(params.state) THEN bytes ELSE <<>>,
         !.targetUrl = [base |-> p._endpoints.authorizationUrl,
                        search |-> SearchParamsToString(
                                     AuthorizeSearchParams(client, scoped))]]

\* authorize(client, params, res) up to the timer: params is changed in place, the
\* target URL is built
AuthorizeStart(p, client, params, bytes) ==
  LET stated == [params EXCEPT !.state = AuthorizeState(params, bytes)]
      scoped == [stated EXCEPT !.scopes = AuthorizeScopes(stated)]
  IN  [IdleCall EXCEPT !.op = "authorize", !.pc = "sleeping", !.client = client,
         !.paramsGiven = params, !.params = scoped,
         !.random = IF ~TruthyText(params.state) THEN bytes ELSE <<>>,
         !.targetUrl = [base |-> p._endpoints.authorizationUrl,
                        search |-> SearchParamsToString(
                                     AuthorizeSearchParams(client, scoped))]]

\* authorize after the timer: res.redirect(targetUrl.toString())
AuthorizeEnd(call) ==
  Returned([call EXCEPT !.redirects = Append(call.redirects, call.targetUrl)], UndefinedV)

\* challengeForAuthorizationCode(client, authorizationCode) up to the timer
ChallengeStart(client, authorizationCode) ==
  [IdleCall EXCEPT !.op = "challengeForAuthorizationCode", !.pc = "sleeping",
     !.client = client, !.authorizationCode = authorizationCode]

\* a challengeForAuthorizationCode that answers with the code it was given
ChallengeEndEchoesCode(call) ==
  Returned(call, [type |-> "string", value |-> call.authorizationCode])

\* challengeForAuthorizationCode after the timer: return ''
ChallengeEnd(call) == Returned(call, [type |-> "string", value |-> ""])

(***************************************************************************)
(* exchangeAuthorizationCode and exchangeRefreshToken.                     *)
(***************************************************************************)
\* OAuthTokensSchema accepts a body that has its required access_token and token_type
TokensSchemaAccepts(raw) == raw.access_token # Undefined /\ raw.token_type # Undefined

\* OAuthTokensSchema.parse(raw): the known keys of an accepted body
TokensSchemaParse(raw) ==
  [type |-> "tokens", access_token |-> raw.access_token, token_type |-> raw.token_type,
   expires_in |-> raw.expires_in, refresh_token |-> raw.refresh_token]

\* an exchangeAuthorizationCode that sends no code_verifier
ExchangeAuthorizationCodeRequestNoVerifier(p, client, authorizationCode, codeVerifier) ==
  LET fixed == << [name |-> "grant_type", value |-> <<"authorization_code">>],
                  [name |-> "client_id", value |-> Text(client.client_id)],
                  [name |-> "code", value |-> Text(authorizationCode)],
                  [name |-> "redirect_uri",
                   value |-> Text(IF Len(client.redirect_uris) >= 1
                                  THEN client.redirect_uris[1] ELSE Undefined)] >>
      params == IF TruthyStr(client.client_secret)
                THEN Append(fixed, [name |-> "client_secret",
                                    value |-> Text(client.client_secret)])
                ELSE fixed
  IN  [method |-> "POST", url |-> p._endpoints.tokenUrl,
       contentType |-> "application/x-www-form-urlencoded",
       body |-> SearchParamsToString(params)]

\* exchangeAuthorizationCode up to its fetch: the form of the authorization_code
\* grant, redirect_uris[0] being undefined for a client without redirect URIs
ExchangeAuthorizationCodeRequest(p, client, authorizationCode, codeVerifier) ==
  LET fixed == << [name |-> "grant_type", value |-> <<"authorization_code">>],
                  [name |-> "client_id", value |-> Text(client.client_id)],
                  [name |-> "code", value |-> Text(authorizationCode)],
                  [name |-> "redirect_uri",
                   value |-> Text(IF Len(client.redirect_uris) >= 1
                                  THEN client.redirect_uris[1] ELSE Undefined)] >>
      secret == IF TruthyStr(client.client_secret)
                THEN Append(fixed, [name |-> "client_secret",
                                    value |-> Text(client.client_secret)])
                ELSE fixed
      params == IF TruthyStr(codeVerifier)
                THEN Append(secret, [name |-> "code_verifier", value |-> Text(codeVerifier)])
                ELSE secret
  IN  [method |-> "POST", url |-> p._endpoints.tokenUrl,
       contentType |-> "application/x-www-form-urlencoded",
       body |-> SearchParamsToString(params)]

\* an exchangeAuthorizationCode that reports a failure without the status
ExchangeAuthorizationCodeParseNoStatus(call, resp) ==
  LET got == [call EXCEPT !.response = resp]
  IN  IF resp.kind = "rejected" THEN Thrown(got, FetchFailed, <<>>)
      ELSE IF ~Ok(resp)
      THEN Thrown(got, ServerError(<<"Token", "exchange", "failed">>), <<>>)
      ELSE IF ~TokensSchemaAccepts(resp.json) THEN Thrown(got, ZodError, <<>>)
      ELSE Returned(got, TokensSchemaParse(resp.json))

\* exchangeAuthorizationCode from the response on: the status check with
\* `Token exchange failed: ${response.status}`, then the body parsed
ExchangeAuthorizationCodeParse(call, resp) ==
  LET got == [call EXCEPT !.response = resp]
  IN  IF resp.kind = "rejected" THEN Thrown(got, FetchFailed, <<>>)
      ELSE IF ~Ok(resp)
      THEN Thrown(got, ServerError(<<"Token", "exchange", "failed", ":", StatusCode(resp)>>),
                  <<>>)
      ELSE IF ~TokensSchemaAccepts(resp.json) THEN Thrown(got, ZodError, <<>>)
      ELSE Returned(got, TokensSchemaParse(resp.json))

\* exchangeAuthorizationCode(client, authorizationCode, codeVerifier) up to the fetch
ExchangeAuthorizationCodeStart(p, client, authorizationCode, codeVerifier) ==
  Awaiting([IdleCall EXCEPT !.op = "exchangeAuthorizationCode", !.client = client,
              !.authorizationCode = authorizationCode, !.codeVerifier = codeVerifier],
           ExchangeAuthorizationCodeRequest(p, client, authorizationCode, codeVerifier),
           "exchanging")

\* an exchangeRefreshToken that sends no scope
ExchangeRefreshTokenRequestNoScope(p, client, refreshToken, scopes) ==
  LET fixed == << [name |-> "grant_type", value |-> <<"refresh_token">>],
                  [name |-> "client_id", value |-> Text(client.client_id)],
                  [name |-> "refresh_token", value |-> Text(refreshToken)] >>
      params == IF TruthyStr(client.client_secret)
                THEN SearchParamsSet(fixed, "client_secret", Text(client.client_secret))
                ELSE fixed
  IN  [method |-> "POST", url |-> p._endpoints.tokenUrl,
       contentType |-> "application/x-www-form-urlencoded",
       body |-> SearchParamsToString(params)]

\* exchangeRefreshToken up to its fetch: the form of the refresh_token grant
ExchangeRefreshTokenRequest(p, client, refreshToken, scopes) ==
  LET fixed == << [name |-> "grant_type", value |-> <<"refresh_token">>],
                  [name |-> "client_id", value |-> Text(client.client_id)],
                  [name |-> "refresh_token", value |-> Text(refreshToken)] >>
      secret == IF TruthyStr(client.client_secret)
                THEN SearchParamsSet(fixed, "client_secret", Text(client.client_secret))
                ELSE fixed
      params == IF OptLength(scopes) > 0
                THEN SearchParamsSet(secret, "scope", Join(scopes)) ELSE secret
  IN  [method |-> "POST", url |-> p._endpoints.tokenUrl,
       contentType |-> "application/x-www-form-urlencoded",
       body |-> SearchParamsToString(params)]

\* exchangeRefreshToken from the response on: the status check with
\* `Token refresh failed: ${response.status}`, then the body parsed
ExchangeRefreshTokenParse(call, resp) ==
  LET got == [call EXCEPT !.response = resp]
  IN  IF resp.kind = "rejected" THEN Thrown(got, FetchFailed, <<>>)
      ELSE IF ~Ok(resp)
      THEN Thrown(got, ServerError(<<"Token", "refresh", "failed", ":", StatusCode(resp)>>),
                  <<>>)
      ELSE IF ~TokensSchemaAccepts(resp.json) THEN Thrown(got, ZodError, <<>>)
      ELSE Returned(got, TokensSchemaParse(resp.json))

\* exchangeRefreshToken(client, refreshToken, scopes) up to the fetch
ExchangeRefreshTokenStart(p, client, refreshToken, scopes) ==
  Awaiting([IdleCall EXCEPT !.op = "exchangeRefreshToken", !.client = client,
              !.refreshToken = refreshToken, !.scopes = scopes],
           ExchangeRefreshTokenRequest(p, client, refreshToken, scopes),
           "refreshing")

(***************************************************************************)
(* revokeToken and clientsStore.registerClient.                            *)
(***************************************************************************)
\* revokeToken up to its fetch: the check of the revocation URL and the form
RevokeTokenRequest(p, client, request) ==
  IF ~TruthyStr(p._endpoints.revocationUrl)
  THEN Throws(Error(<<"No", "revocation", "endpoint", "configured">>))
  ELSE LET token == SearchParamsSet(<<>>, "token", Text(request.token))
           id == SearchParamsSet(token, "client_id", Text(client.client_id))
           secret == IF TruthyStr(client.client_secret)
                     THEN SearchParamsSet(id, "client_secret", Text(client.client_secret))
                     ELSE id
           params == IF TruthyStr(request.token_type_hint)
                     THEN SearchParamsSet(secret, "token_type_hint",
                                          Text(request.token_type_hint))
                     ELSE secret
       IN  Fetches([method |-> "POST", url |-> p._endpoints.revocationUrl,
                    contentType |-> "application/x-www-form-urlencoded",
                    body |-> SearchParamsToString(params)])

\* revokeToken(client, request) up to the fetch
RevokeTokenStart(p, client, request) ==
  LET call == [IdleCall EXCEPT !.op = "revokeToken", !.client = client,
                 !.request = request]
      f == RevokeTokenRequest(p, client, request)
  IN  IF f.throws THEN Thrown(call, f.error, <<>>)
      ELSE Awaiting(call, f.request, "revoking")

\* a revokeToken that completes whatever the status
RevokeTokenParseIgnoresStatus(call, resp) ==
  LET got == [call EXCEPT !.response = resp]
  IN  IF resp.kind = "rejected" THEN Thrown(got, FetchFailed, <<>>)
      ELSE Returned(got, UndefinedV)

\* revokeToken from the response on: the status check with
\* `Token revocation failed: ${response.status}`; nothing is returned
RevokeTokenParse(call, resp) ==
  LET got == [call EXCEPT !.response = resp]
  IN  IF resp.kind = "rejected" THEN Thrown(got, FetchFailed, <<>>)
      ELSE IF ~Ok(resp)
      THEN Thrown(got, ServerError(<<"Token", "revocation", "failed", ":",
                                     StatusCode(resp)>>), <<>>)
      ELSE Returned(got, UndefinedV)

\* JSON.stringify(client): the members of the client in order, an undefined member
\* left out
JsonStringify(client) ==
  SelectSeq(<< [name |-> "client_id", value |-> <<client.client_id>>],
               [name |-> "client_secret", value |-> <<client.client_secret>>],
               [name |-> "redirect_uris", value |-> client.redirect_uris] >>,
            LAMBDA member : member.value # <<Undefined>>)

\* registerClient(client) up to the fetch: the client posted as JSON to the
\* registration URL the clientsStore getter read
RegisterClientStart(p, client) ==
  Awaiting([IdleCall EXCEPT !.op = "registerClient", !.client = client],
           [method |-> "POST", url |-> p._endpoints.registrationUrl,
            contentType |-> "application/json", body |-> JsonStringify(client)],
           "registering")

\* a registerClient that answers with the client it was given
RegisterClientParseReturnsArgument(call, resp) ==
  LET got == [call EXCEPT !.response = resp]
  IN  IF resp.kind = "rejected" THEN Thrown(got, FetchFailed, <<>>)
      ELSE IF ~Ok(resp)
      THEN Thrown(got, ServerError(<<"Client", "registration", "failed", ":",
                                     StatusCode(resp)>>), <<>>)
      ELSE Returned(got, call.client)

\* registerClient from the response on: the status check with
\* `Client registration failed: ${response.status}`, then the body parsed
RegisterClientParse(call, resp) ==
  LET got == [call EXCEPT !.response = resp]
  IN  IF resp.kind = "rejected" THEN Thrown(got, FetchFailed, <<>>)
      ELSE IF ~Ok(resp)
      THEN Thrown(got, ServerError(<<"Client", "registration", "failed", ":",
                                     StatusCode(resp)>>), <<>>)
      ELSE IF ~SchemaAccepts(resp.json) THEN Thrown(got, ZodError, <<>>)
      ELSE Returned(got, SchemaParse(resp.json))

(***************************************************************************)
(* McpAccessControl: the handler of the ory_access_control tool            *)
(* (src/unnamed/part_001; src/src/index.ts has it with claimKey "email"    *)
(* and audience "ory" fixed).                                              *)
(***************************************************************************)
\* no McpAccessControl and no example server has been constructed
NoAccessControl == [kind |-> "none"]

NoServer == [kind |-> "none"]

\* McpAccessControlOptions, the members the handler reads
AccessControlOptionsSpace ==
  [issuer : {"issuer"}, audience : {"aud"}, claimKey : {"email", "sub"}]

\* JWTs a caller presents: signed by a key of the key set or not, with their iss and
\* aud and the claims email and sub
Jwts ==
  { [signed |-> TRUE, iss |-> "issuer", aud |-> "aud",
     email |-> "foo@bar.com", sub |-> "user-1"],
    [signed |-> TRUE, iss |-> "issuer", aud |-> "aud",
     email |-> Undefined, sub |-> "user-1"],
    [signed |-> TRUE, iss |-> "issuer", aud |-> "aud",
     email |-> "", sub |-> Undefined],
    [signed |-> FALSE, iss |-> "issuer", aud |-> "aud",
     email |-> "foo@bar.com", sub |-> "user-1"],
    [signed |-> TRUE, iss |-> "other-issuer", aud |-> "aud",
     email |-> "foo@bar.com", sub |-> "user-1"],
    [signed |-> TRUE, iss |-> "issuer", aud |-> "ory",
     email |-> "foo@bar.com", sub |-> "user-1"] }

NoJwt == [signed |-> FALSE, iss |-> Undefined, aud |-> Undefined,
          email |-> Undefined, sub |-> Undefined]

\* the remote key set answers, or cannot be fetched
JwksOutcomes == {"available", "unreachable"}

\* what identityApi.createIdentity does: the backend creates the identity, refuses it
\* because the identifier is taken, fails, or the call rejects with a value that is
\* no Error
CreateIdentityOutcomes == {"created", "conflict", "failed", "rejected value"}

\* payload[claimKey]
Claim(jwt, claimKey) == IF claimKey = "email" THEN jwt.email ELSE jwt.sub

\* jwtVerify(token, jwks, {issuer, audience}): the key set, the signature, then the
\* iss and aud claims
JwtVerify(jwt, jwks, opts) ==
  IF jwks = "unreachable"
  THEN Throws(Error(<<"Expected", "200", "OK", "from", "the", "JSON", "Web", "Key", "Set",
                      "HTTP", "response">>))
  ELSE IF ~jwt.signed THEN Throws(Error(<<"signature", "verification", "failed">>))
  ELSE IF jwt.iss # opts.issuer
  THEN Throws(Error(<<"unexpected", "\"iss\"", "claim", "value">>))
  ELSE IF jwt.aud # opts.audience
  THEN Throws(Error(<<"unexpected", "\"aud\"", "claim", "value">>))
  ELSE [Throws(NoError) EXCEPT !.throws = FALSE]

\* ids the backend gives the identities it creates, in order
IdentityIds == <<"id-1", "id-2", "id-3", "id-4">>

NoIdentity == [id |-> Undefined, email |-> Undefined]

\* the state of a handler invocation: the token, where it is suspended, the calls it
\* has made in order, its locals and its result; `known` is the id of the identity
\* the backend held for the claim when the invocation began
IdleHandler ==
  [pc |-> "idle", token |-> NoJwt, made |-> <<>>, payload |-> NoJwt,
   claimValue |-> Undefined,
   known |-> Undefined, outcome |-> "none", success |-> FALSE,
   identity |-> NoIdentity, error |-> <<>>]

\* the id of the first identity with the email, undefined without one
KnownIdentity(identities, email) ==
  IF \E i \in 1..Len(identities) : identities[i].email = email
  THEN identities[CHOOSE i \in 1..Len(identities) :
                    /\ identities[i].email = email
                    /\ \A j \in 1..(i - 1) : identities[j].email # email].id
  ELSE Undefined

\* new McpAccessControl(options), with the identities the backend holds
McpAccessControl(opts, identities) ==
  [kind |-> "McpAccessControl", issuer |-> opts.issuer, audience |-> opts.audience,
   claimKey |-> opts.claimKey, identities |-> identities, handler |-> IdleHandler]

\* the catch of the handler: return {success: false, error: error.message}, or
\* "Unknown error occurred" for a value that is no Error
HandlerCaught(h, e) ==
  [h EXCEPT !.pc = "done", !.outcome = "return", !.success = FALSE,
            !.error = IF e.name = "none" THEN <<"Unknown", "error", "occurred">>
                      ELSE e.message]

\* handler(params) up to await jwtVerify
HandlerStart(ac, jwt) ==
  [IdleHandler EXCEPT !.pc = "verifying", !.token = jwt, !.made = <<"jwtVerify">>,
     !.known = IF TruthyStr(Claim(jwt, ac.claimKey))
               THEN KnownIdentity(ac.identities, Claim(jwt, ac.claimKey))
               ELSE Undefined]

\* a handler without its try and catch
HandlerAfterVerifyUncaught(ac, h, jwks) ==
  LET v == JwtVerify(h.token, jwks, ac)
      \* payload[claimKey] of the verified token
      claimValue == Claim(h.token, ac.claimKey)
  IN  IF v.throws
      THEN [h EXCEPT !.pc = "done", !.outcome = "throw", !.error = v.error.message]
      ELSE IF ~TruthyStr(claimValue)
      THEN [h EXCEPT !.pc = "done", !.outcome = "throw", !.payload = h.token,
                     !.error = <<"JWT", "must", "contain", "a", ac.claimKey, "claim">>]
      ELSE [h EXCEPT !.pc = "creating", !.payload = h.token, !.claimValue = claimValue,
                     !.made = Append(h.made, "createIdentity")]

\* the handler from the result of jwtVerify on: the check of payload[claimKey], then
\* identityApi.createIdentity up to its await
HandlerAfterVerify(ac, h, jwks) ==
  LET v == JwtVerify(h.token, jwks, ac)
      \* payload[claimKey] of the verified token
      claimValue == Claim(h.token, ac.claimKey)
  IN  IF v.throws THEN HandlerCaught(h, v.error)
      ELSE IF ~TruthyStr(claimValue)
      THEN HandlerCaught([h EXCEPT !.payload = h.token],
                         Error(<<"JWT", "must", "contain", "a", ac.claimKey, "claim">>))
      ELSE [h EXCEPT !.pc = "creating", !.payload = h.token, !.claimValue = claimValue,
                     !.made = Append(h.made, "createIdentity")]

\* the identity backend after createIdentity({traits: {email}}) with the outcome
BackendAfterCreate(identities, email, outcome) ==
  IF outcome = "created"
  THEN Append(identities, [id |-> IdentityIds[Len(identities) + 1], email |-> email])
  ELSE identities

\* the handler from the result of createIdentity on
HandlerAfterCreate(ac, h, outcome) ==
  IF outcome = "created"
  THEN [h EXCEPT !.pc = "done", !.outcome = "return", !.success = TRUE,
                 !.identity = [id |-> IdentityIds[Len(ac.identities) + 1],
                               email |-> h.claimValue]]
  ELSE IF outcome = "rejected value" THEN HandlerCaught(h, NoError)
  ELSE HandlerCaught(h, Error(<<"Response", "returned", "an", "error", "code">>))

(***************************************************************************)
(* The example server (src/src/example/mcp-server.ts): the registry of     *)
(* transports and the routes GET /sse and POST /messages.                  *)
(***************************************************************************)
\* the options of the example's provider: the network backend with every endpoint
ExampleOptions ==
  {o \in OptionsSpace :
     /\ o.providerType = "network"
     /\ TruthyStr(o.networkProjectUrl) /\ TruthyStr(o.networkProjectApiKey)
     /\ o.hydraAdminUrl = Undefined /\ o.hydraApiKey = Undefined
     /\ TruthyStr(o.endpoints.revocationUrl) /\ TruthyStr(o.endpoints.registrationUrl)}

\* the session ids the transports of the connections draw (randomUUID), in order
SessionIds == <<"session-1", "session-2", "session-3">>

Connections == 1..MaxConnections

\* the sessionId query parameter of a POST /messages: a session id, an id no
\* transport has, names of inherited properties of the registry, or none
PostSessionIds == {"session-1", "session-2", "unknown", "constructor", "__proto__", Undefined}

\* what a transport answers to a message handed to it
HandlePostMessageStatuses == {202, 400, 500}

\* a connection nobody has made; `listening` tells that the close listener of the
\* route is on the response, `closed` that the connection has closed
NoConnection == [pc |-> "none", closed |-> FALSE, listening |-> FALSE]

NoPost == [sessionId |-> Undefined, reached |-> FALSE, registered |-> FALSE,
           handed |-> FALSE, status |-> 0]

\* new SSEServerTransport('/messages', res) of connection k
SSEServerTransport(k) == [type |-> "SSEServerTransport", sessionId |-> SessionIds[k]]

\* the module state of the example server: the transports registry, starting as {},
\* the SSE connections and the last POST /messages
ExampleServer ==
  [kind |-> "server", transports |-> EmptyMapping,
   connections |-> [k \in Connections |-> NoConnection], post |-> NoPost]

\* transports[transport.sessionId] = transport
RegistrySet(registry, transport) ==
  [registry EXCEPT !.own = (transport.sessionId :> transport) @@ registry.own]

\* delete transports[sessionId]
RegistryDelete(registry, sessionId) ==
  [registry EXCEPT !.own = [id \in (DOMAIN registry.own) \ {sessionId} |-> registry.own[id]]]

\* the handler of GET /sse: the transport is made and registered, the close listener
\* is put on the response, the server is connected
SseHandler(srv, k) ==
  [srv EXCEPT
     !.transports = RegistrySet(srv.transports, SSEServerTransport(k)),
     !.connections[k] = [pc |-> "open", closed |-> srv.connections[k].closed,
                         listening |-> TRUE]]

\* the response emits 'close': the listeners on it at that moment run
ResponseClose(srv, k) ==
  [srv EXCEPT
     !.transports = IF srv.connections[k].listening
                    THEN RegistryDelete(srv.transports, SessionIds[k])
                    ELSE srv.transports,
     !.connections[k].closed = TRUE]

\* existingTransport instanceof SSEServerTransport
IsSSEServerTransport(v) == v.type = "SSEServerTransport"

\* the handler of POST /messages: the transport of the session takes the message,
\* any other session is answered 400
MessagesHandler(srv, sessionId, status) ==
  LET existingTransport == Lookup(srv.transports, ToStr(sessionId))
  IN  [srv EXCEPT
         !.post = [sessionId |-> sessionId, reached |-> TRUE,
                   registered |-> ToStr(sessionId) \in DOMAIN srv.transports.own,
                   handed |-> IsSSEServerTransport(existingTransport),
                   status |-> IF IsSSEServerTransport(existingTransport) THEN status
                              ELSE 400]]

\* bearerAuthMiddleware refuses a request: 401, the route's handler does not run
MessagesRefused(srv, sessionId) ==
  [srv EXCEPT
     !.post = [sessionId |-> sessionId, reached |-> FALSE,
               registered |-> ToStr(sessionId) \in DOMAIN srv.transports.own,
               handed |-> FALSE, status |-> 401]]

(***************************************************************************)
(* The specification.                                                      *)
(***************************************************************************)
Init ==
  /\ options \in OptionsSpace
  /\ provider = Constructor(options)
  /\ calls = [c \in Calls |-> IdleCall]
  /\ accessControl = NoAccessControl
  /\ server = NoServer

\* a caller invokes getClient(clientId)
GetClient(c, clientId) ==
  /\ calls[c].pc = "idle"
  /\ calls' = [calls EXCEPT ![c] = GetClientStart(provider, clientId)]
  /\ UNCHANGED <<options, provider, accessControl, server>>

\* a caller invokes verifyAccessToken(token)
VerifyAccessToken(c, token) ==
  /\ calls[c].pc = "idle"
  /\ calls' = [calls EXCEPT ![c] = VerifyStart(provider, token)]
  /\ UNCHANGED <<options, provider, accessControl, server>>

\* the introspection fetch of call c settles
IntrospectResponse(c, resp) ==
  /\ calls[c].pc = "introspecting"
  /\ calls' = [calls EXCEPT ![c] = VerifyAfterIntrospection(provider, calls[c], resp)]
  /\ UNCHANGED <<options, provider, accessControl, server>>

\* the list-clients fetch of call c settles
ClientsResponse(c, resp) ==
  /\ calls[c].pc = "clientLookup"
  /\ calls' = [calls EXCEPT ![c] = AfterClients(calls[c], resp)]
  /\ UNCHANGED <<options, provider, accessControl, server>>

\* an authorize that turns the local PKCE validation on for the calls to come
AuthorizeSetsPkceValidation(c, client, params, bytes) ==
  /\ calls[c].pc = "idle"
  /\ calls' = [calls EXCEPT ![c] = AuthorizeStart(provider, client, params, bytes)]
  /\ provider' = [provider EXCEPT !.skipLocalPkceValidation = FALSE]
  /\ UNCHANGED <<options, accessControl, server>>

\* a caller invokes authorize(client, params, res); crypto.randomBytes answers bytes
Authorize(c, client, params, bytes) ==
  /\ calls[c].pc = "idle"
  /\ calls' = [calls EXCEPT ![c] = AuthorizeStart(provider, client, params, bytes)]
  /\ UNCHANGED <<options, provider, accessControl, server>>

\* a caller invokes challengeForAuthorizationCode(client, authorizationCode)
ChallengeForAuthorizationCode(c, client, authorizationCode) ==
  /\ calls[c].pc = "idle"
  /\ calls' = [calls EXCEPT ![c] = ChallengeStart(client, authorizationCode)]
  /\ UNCHANGED <<options, provider, accessControl, server>>

\* a caller invokes exchangeAuthorizationCode(client, authorizationCode, codeVerifier)
ExchangeAuthorizationCode(c, client, authorizationCode, codeVerifier) ==
  /\ calls[c].pc = "idle"
  /\ calls' = [calls EXCEPT ![c] = ExchangeAuthorizationCodeStart(
                                     provider, client, authorizationCode, codeVerifier)]
  /\ UNCHANGED <<options, provider, accessControl, server>>

\* the token fetch of the code exchange of call c settles
ExchangeResponse(c, resp) ==
  /\ calls[c].pc = "exchanging"
  /\ calls' = [calls EXCEPT ![c] = ExchangeAuthorizationCodeParse(calls[c], resp)]
  /\ UNCHANGED <<options, provider, accessControl, server>>

\* a caller invokes exchangeRefreshToken(client, refreshToken, scopes)
ExchangeRefreshToken(c, client, refreshToken, scopes) ==
  /\ calls[c].pc = "idle"
  /\ calls' = [calls EXCEPT ![c] = ExchangeRefreshTokenStart(
                                     provider, client, refreshToken, scopes)]
  /\ UNCHANGED <<options, provider, accessControl, server>>

\* the token fetch of the refresh of call c settles
RefreshResponse(c, resp) ==
  /\ calls[c].pc = "refreshing"
  /\ calls' = [calls EXCEPT ![c] = ExchangeRefreshTokenParse(calls[c], resp)]
  /\ UNCHANGED <<options, provider, accessControl, server>>

\* a caller invokes revokeToken(client, request), which exists when the constructor
\* attached it
RevokeToken(c, client, request) ==
  /\ calls[c].pc = "idle"
  /\ provider.revokeToken # Undefined
  /\ calls' = [calls EXCEPT ![c] = RevokeTokenStart(provider, client, request)]
  /\ UNCHANGED <<options, provider, accessControl, server>>

\* the revocation fetch of call c settles
RevocationResponse(c, resp) ==
  /\ calls[c].pc = "revoking"
  /\ calls' = [calls EXCEPT ![c] = RevokeTokenParse(calls[c], resp)]
  /\ UNCHANGED <<options, provider, accessControl, server>>

\* a caller invokes clientsStore.registerClient(client), which exists when the
\* getter spread it in
RegisterClient(c, client) ==
  /\ calls[c].pc = "idle"
  /\ ClientsStore(provider).registerClient # Undefined
  /\ calls' = [calls EXCEPT ![c] = RegisterClientStart(provider, client)]
  /\ UNCHANGED <<options, provider, accessControl, server>>

\* the registration fetch of call c settles
RegistrationResponse(c, resp) ==
  /\ calls[c].pc = "registering"
  /\ calls' = [calls EXCEPT ![c] = RegisterClientParse(calls[c], resp)]
  /\ UNCHANGED <<options, provider, accessControl, server>>

\* the 100 ms timer of call c fires
TimerFires(c) ==
  /\ calls[c].pc = "sleeping"
  /\ calls' = [calls EXCEPT ![c] = IF calls[c].op = "authorize" THEN AuthorizeEnd(calls[c])
                                   ELSE ChallengeEnd(calls[c])]
  /\ UNCHANGED <<options, provider, accessControl, server>>

\* the caller has taken the result of call c; the slot is free for the next call
Settle(c) ==
  /\ calls[c].pc = "done"
  /\ calls' = [calls EXCEPT ![c] = IdleCall]
  /\ UNCHANGED <<options, provider, accessControl, server>>

Next ==
  \/ \E c \in Calls, clientId \in ClientIds : GetClient(c, clientId)
  \/ \E c \in Calls, token \in Tokens : VerifyAccessToken(c, token)
  \/ \E c \in Calls, resp \in IntrospectResponses : IntrospectResponse(c, resp)
  \/ \E c \in Calls, resp \in ClientsResponses : ClientsResponse(c, resp)
  \/ \E c \in Calls, client \in Clients, params \in AuthorizationParamsSpace,
        bytes \in RandomBytesOutcomes : Authorize(c, client, params, bytes)
  \/ \E c \in Calls, client \in Clients, code \in AuthorizationCodes :
        ChallengeForAuthorizationCode(c, client, code)
  \/ \E c \in Calls : TimerFires(c)
  \/ \E c \in Calls, client \in Clients, code \in AuthorizationCodes,
        verifier \in CodeVerifiers : ExchangeAuthorizationCode(c, client, code, verifier)
  \/ \E c \in Calls, resp \in TokenResponses : ExchangeResponse(c, resp)
  \/ \E c \in Calls, client \in Clients, refreshToken \in RefreshTokens,
        scopes \in ScopeLists : ExchangeRefreshToken(c, client, refreshToken, scopes)
  \/ \E c \in Calls, resp \in TokenResponses : RefreshResponse(c, resp)
  \/ \E c \in Calls, client \in Clients, request \in RevocationRequests :
        RevokeToken(c, client, request)
  \/ \E c \in Calls, resp \in RevocationResponses : RevocationResponse(c, resp)
  \/ \E c \in Calls, client \in Clients : RegisterClient(c, client)
  \/ \E c \in Calls, resp \in RegistrationResponses : RegistrationResponse(c, resp)
  \/ \E c \in Calls : Settle(c)

Spec == Init /\ [][Next]_vars

(***************************************************************************)
(* Two calls in flight on one provider: getClient and verifyAccessToken    *)
(* interleave at their awaits.  The provider has both backend pairs; the   *)
(* backend answers with lists of at most one client.                       *)
(***************************************************************************)
ConcurrentCalls == {1, 2}

ConcurrentOptions ==
  {o \in OptionsSpace :
     /\ TruthyStr(o.hydraAdminUrl) /\ TruthyStr(o.hydraApiKey)
     /\ TruthyStr(o.networkProjectUrl) /\ TruthyStr(o.networkProjectApiKey)
     /\ o.endpoints.revocationUrl = Undefined
     /\ o.endpoints.registrationUrl = Undefined}

ConcurrentClientsResponses ==
  {r \in ClientsResponses : r.kind = "http" /\ Ok(r) => Len(r.json) <= 1}

ConcurrentIntrospectResponses ==
  {r \in IntrospectResponses :
     r.kind = "http" /\ Ok(r) =>
       r.json.scope = NoScope /\ r.json.client_id \in {"test-client", "constructor"}}

InitConcurrent ==
  /\ options \in ConcurrentOptions
  /\ provider = Constructor(options)
  /\ calls = [c \in ConcurrentCalls |-> IdleCall]
  /\ accessControl = NoAccessControl
  /\ server = NoServer

NextConcurrent ==
  \/ \E c \in ConcurrentCalls, clientId \in ClientIds : GetClient(c, clientId)
  \/ \E c \in ConcurrentCalls, token \in Tokens : VerifyAccessToken(c, token)
  \/ \E c \in ConcurrentCalls, resp \in ConcurrentIntrospectResponses :
        IntrospectResponse(c, resp)
  \/ \E c \in ConcurrentCalls, resp \in ConcurrentClientsResponses :
        ClientsResponse(c, resp)
  \/ \E c \in ConcurrentCalls : Settle(c)

SpecConcurrent == InitConcurrent /\ [][NextConcurrent]_vars

(***************************************************************************)
(* An McpAccessControl whose tool handler is called again and again,       *)
(* against an identity backend that starts empty.  The OAuth provider      *)
(* stays idle.                                                             *)
(***************************************************************************)
InitAccessControl ==
  /\ options \in {o \in ConcurrentOptions : o.providerType = "network"}
  /\ provider = Constructor(options)
  /\ calls = [c \in Calls |-> IdleCall]
  /\ \E opts \in AccessControlOptionsSpace : accessControl = McpAccessControl(opts, <<>>)
  /\ server = NoServer

\* a caller invokes the handler with a token
Handle(jwt) ==
  /\ accessControl.handler.pc = "idle"
  /\ accessControl' = [accessControl EXCEPT !.handler = HandlerStart(accessControl, jwt)]
  /\ UNCHANGED <<options, provider, calls, server>>

\* jwtVerify settles
JwtVerifyResponse(jwks) ==
  /\ accessControl.handler.pc = "verifying"
  /\ accessControl' =
       [accessControl EXCEPT
          !.handler = HandlerAfterVerify(accessControl, accessControl.handler, jwks)]
  /\ UNCHANGED <<options, provider, calls, server>>

\* createIdentity settles; the backend refuses an identity only when it holds one
\* with the same email
CreateIdentityResponse(outcome) ==
  /\ accessControl.handler.pc = "creating"
  /\ outcome = "created" => Len(accessControl.identities) < MaxIdentities
  /\ outcome = "conflict" =>
       KnownIdentity(accessControl.identities, accessControl.handler.claimValue) # Undefined
  /\ accessControl' =
       [accessControl EXCEPT
          !.handler = HandlerAfterCreate(accessControl, accessControl.handler, outcome),
          !.identities = BackendAfterCreate(accessControl.identities,
                                            accessControl.handler.claimValue, outcome)]
  /\ UNCHANGED <<options, provider, calls, server>>

\* the caller has taken the result of the handler
HandlerSettle ==
  /\ accessControl.handler.pc = "done"
  /\ accessControl' = [accessControl EXCEPT !.handler = IdleHandler]
  /\ UNCHANGED <<options, provider, calls, server>>

NextAccessControl ==
  \/ \E jwt \in Jwts : Handle(jwt)
  \/ \E jwks \in JwksOutcomes : JwtVerifyResponse(jwks)
  \/ \E outcome \in CreateIdentityOutcomes : CreateIdentityResponse(outcome)
  \/ HandlerSettle

SpecAccessControl == InitAccessControl /\ [][NextAccessControl]_vars

(***************************************************************************)
(* The example server under GET /sse, connection close and POST /messages. *)
(* Every route is behind bearerAuthMiddleware, which awaits                *)
(* verifyAccessToken: a request waits there before its handler runs, and   *)
(* its connection can close meanwhile.                                     *)
(***************************************************************************)
InitServer ==
  /\ options \in ExampleOptions
  /\ provider = Constructor(options)
  /\ calls = [c \in Calls |-> IdleCall]
  /\ accessControl = NoAccessControl
  /\ server = ExampleServer

\* GET /sse arrives on connection k and enters bearerAuthMiddleware
SseRequest(k) ==
  /\ server.connections[k].pc = "none"
  /\ server' = [server EXCEPT !.connections[k].pc = "authenticating"]
  /\ UNCHANGED <<options, provider, calls, accessControl>>

\* bearerAuthMiddleware refuses the GET /sse: 401
SseRefused(k) ==
  /\ server.connections[k].pc = "authenticating"
  /\ server' = [server EXCEPT !.connections[k].pc = "refused"]
  /\ UNCHANGED <<options, provider, calls, accessControl>>

\* bearerAuthMiddleware passes the GET /sse on and the handler of the route runs
SseOpen(k) ==
  /\ server.connections[k].pc = "authenticating"
  /\ server' = SseHandler(server, k)
  /\ UNCHANGED <<options, provider, calls, accessControl>>

\* the client closes connection k
ConnectionClose(k) ==
  /\ server.connections[k].pc \in {"authenticating", "open"}
  /\ ~server.connections[k].closed
  /\ server' = ResponseClose(server, k)
  /\ UNCHANGED <<options, provider, calls, accessControl>>

\* a POST /messages that passes bearerAuthMiddleware
PostMessages(sessionId, status) ==
  /\ server' = MessagesHandler(server, sessionId, status)
  /\ UNCHANGED <<options, provider, calls, accessControl>>

\* a POST /messages that bearerAuthMiddleware refuses
PostMessagesRefused(sessionId) ==
  /\ server' = MessagesRefused(server, sessionId)
  /\ UNCHANGED <<options, provider, calls, accessControl>>

NextServer ==
  \/ \E k \in Connections : SseRequest(k)
  \/ \E k \in Connections : SseRefused(k)
  \/ \E k \in Connections : SseOpen(k)
  \/ \E k \in Connections : ConnectionClose(k)
  \/ \E sessionId \in PostSessionIds, status \in HandlePostMessageStatuses :
       PostMessages(sessionId, status)
  \/ \E sessionId \in PostSessionIds : PostMessagesRefused(sessionId)

SpecServer == InitServer /\ [][NextServer]_vars

(***************************************************************************)
(* Vocabulary of the properties.                                           *)
(***************************************************************************)
\* phrase occurs in msg as consecutive words
Contains(msg, phrase) ==
  \E i \in 1..(Len(msg) - Len(phrase) + 1) : SubSeq(msg, i, i + Len(phrase) - 1) = phrase

IsVerify(call) == call.op = "verifyAccessToken"

IsGetClient(call) == call.op = "getClient"

\* the call ended by throwing an error
Failed(call) == call.pc = "done" /\ call.outcome = "throw"

\* the call ended by returning a value
Succeeded(call) == call.pc = "done" /\ call.outcome = "return"

\* the call received an HTTP response to its introspection request
IntrospectAnswered(call) == call.introspectResponse.kind = "http"

\* the introspection request was answered 2xx and reported the token active / inactive
IntrospectedActive(call) ==
  /\ IntrospectAnswered(call) /\ Ok(call.introspectResponse)
  /\ call.introspectResponse.json.active

IntrospectedInactive(call) ==
  /\ IntrospectAnswered(call) /\ Ok(call.introspectResponse)
  /\ ~call.introspectResponse.json.active

\* the call received a 2xx list of well-formed clients from the backend
ClientsListed(call) ==
  /\ call.clientsResponse.kind = "http" /\ Ok(call.clientsResponse)
  /\ \A i \in 1..Len(call.clientsResponse.json) :
       call.clientsResponse.json[i].client_id # Undefined

\* the client ids of the list the call received
ListedIds(call) ==
  {call.clientsResponse.json[i].client_id : i \in 1..Len(call.clientsResponse.json)}

\* the request is the list-clients request / the introspection request
IsListRequest(r) == r.method = "GET" /\ r.url[2] = "/admin/clients"

IsIntrospectRequest(r) == r.method = "POST" /\ r.url[2] = "/admin/oauth2/introspect"

(***************************************************************************)
(* C1.  verifyAccessToken, when the introspection response has             *)
(* active = false, fails with an error whose message contains "not active" *)
(* and has made exactly one backend call, which is not the client list.    *)
(***************************************************************************)
C1_InactiveFailsAfterOneCall ==
  \A c \in Calls :
    (IsVerify(calls[c]) /\ IntrospectedInactive(calls[c])) =>
      /\ Failed(calls[c])
      /\ Contains(calls[c].error.message, <<"not", "active">>)
      /\ Len(calls[c].fetches) = 1
      /\ ~IsListRequest(calls[c].fetches[1])

C1_Witness ==
  \E c \in Calls :
    /\ IsVerify(calls[c]) /\ IntrospectedInactive(calls[c])
    /\ Failed(calls[c])
    /\ calls[c].introspectResponse.json.client_id = "test-client"

(***************************************************************************)
(* C2.  verifyAccessToken, when introspection reports active = true but    *)
(* the fetched client list has no entry whose client_id equals             *)
(* introspection.client_id, fails with an error whose message contains     *)
(* "mismatch" after exactly two backend calls: introspect, then list       *)
(* clients.                                                                *)
(***************************************************************************)
C2_NoMatchingClientFailsWithMismatch ==
  \A c \in Calls :
    ( /\ IsVerify(calls[c]) /\ IntrospectedActive(calls[c]) /\ ClientsListed(calls[c])
      /\ calls[c].introspection.client_id \notin ListedIds(calls[c]) ) =>
      /\ Failed(calls[c])
      /\ Contains(calls[c].error.message, <<"mismatch">>)
      /\ Len(calls[c].fetches) = 2
      /\ IsIntrospectRequest(calls[c].fetches[1])
      /\ IsListRequest(calls[c].fetches[2])

(***************************************************************************)
(* C3.  Every run of verifyAccessToken follows the state machine           *)
(* Start -> Introspecting -> {IntrospectFailed | Inactive |                *)
(* ClientLookup -> {Found | NotFound}}: it ends in exactly one of these    *)
(* terminal outcomes, the client-list call is issued only after an         *)
(* introspection response with HTTP success and active = true, and a       *)
(* failed introspection HTTP call ends the run with an error containing    *)
(* the HTTP status text after exactly one backend call.                    *)
(***************************************************************************)
\* the terminal outcomes of the state machine, told apart by what the run observed
\* and how it ended
IntrospectFailedOutcome(call) ==
  /\ Failed(call) /\ Len(call.fetches) = 1
  /\ call.introspectResponse.kind \in {"rejected", "http"}
  /\ IntrospectAnswered(call) => ~Ok(call.introspectResponse)

InactiveOutcome(call) ==
  /\ Failed(call) /\ Len(call.fetches) = 1
  /\ IntrospectedInactive(call)
  /\ Contains(call.error.message, <<"not", "active">>)

FoundOutcome(call) ==
  /\ Succeeded(call) /\ Len(call.fetches) = 2
  /\ call.value.type = "authInfo"

NotFoundOutcome(call) ==
  /\ Failed(call) /\ Len(call.fetches) = 2
  /\ Contains(call.error.message, <<"mismatch">>)

\* the two outcomes the state machine of the specification leaves out
ConfigurationErrorOutcome(call) ==
  /\ Failed(call) /\ Len(call.fetches) = 0
  /\ Contains(call.error.message, <<"URL", "is", "required">>)

ClientListFailedOutcome(call) ==
  /\ Failed(call) /\ Len(call.fetches) = 2
  /\ call.clientsResponse.kind \in {"rejected", "http"}
  /\ ~ClientsListed(call)
  /\ call.error.name \in {"TypeError", "ZodError"}
       \/ Contains(call.error.message, <<"Failed", "to", "list", "OAuth2", "clients:">>)

\* how many of the given outcomes the call is in
OutcomeCount(call, withLeftOut) ==
  Cardinality(
    {o \in 1..(IF withLeftOut THEN 6 ELSE 4) :
       CASE o = 1 -> IntrospectFailedOutcome(call)
         [] o = 2 -> InactiveOutcome(call)
         [] o = 3 -> FoundOutcome(call)
         [] o = 4 -> NotFoundOutcome(call)
         [] o = 5 -> ConfigurationErrorOutcome(call)
         [] o = 6 -> ClientListFailedOutcome(call)})

\* the position of the run in the state machine agrees with the calls it has issued
VerifyPath(call) ==
  /\ call.pc \in {"introspecting", "clientLookup", "done"}
  /\ Len(call.fetches) <= 2
  /\ call.pc = "introspecting" =>
       /\ Len(call.fetches) = 1
       /\ call.introspectResponse = NoResponse
  /\ call.pc = "clientLookup" => Len(call.fetches) = 2
  /\ Len(call.fetches) >= 1 => IsIntrospectRequest(call.fetches[1])
  /\ Len(call.fetches) = 2 =>
       /\ IsListRequest(call.fetches[2])
       /\ IntrospectedActive(call)
  /\ (IntrospectAnswered(call) /\ ~Ok(call.introspectResponse)) =>
       /\ Failed(call)
       /\ Contains(call.error.message, <<call.introspectResponse.statusText>>)
       /\ Len(call.fetches) = 1

\* the claim as stated: one of the four outcomes of the state machine
C3_FourTerminalOutcomes ==
  \A c \in Calls :
    IsVerify(calls[c]) =>
      /\ VerifyPath(calls[c])
      /\ calls[c].pc = "done" => OutcomeCount(calls[c], FALSE) = 1

\* C3 as amended: the run ends in exactly one of the four outcomes of the state
\* machine, or in a configuration error before any backend call, or in a failure of
\* the client-list call (HTTP failure, rejected fetch or schema validation) after two
\* backend calls; the rest of the claim as stated
C3_TerminalOutcomes ==
  \A c \in Calls :
    IsVerify(calls[c]) =>
      /\ VerifyPath(calls[c])
      /\ calls[c].pc = "done" => OutcomeCount(calls[c], TRUE) = 1

C3_Witness ==
  \E c \in Calls :
    /\ IsVerify(calls[c])
    /\ IntrospectAnswered(calls[c]) /\ ~Ok(calls[c].introspectResponse)
    /\ IntrospectFailedOutcome(calls[c])
    /\ calls[c].error.message = <<"Token", "introspection", "failed:", "Server Error">>

(***************************************************************************)
(* C4.  verifyAccessToken on success returns exactly {token: the input     *)
(* token, clientId: introspection.client_id, scopes: introspection.scope   *)
(* split on single spaces, or the empty list when scope is absent,         *)
(* expiresAt: introspection.exp}, for every active introspection result    *)
(* whose client_id is in the client list.                                  *)
(***************************************************************************)
RECURSIVE JoinWithSpaces(_)
\* the segments put together again, one space between neighbours
JoinWithSpaces(segments) ==
  IF Len(segments) = 0 THEN <<>>
  ELSE IF Len(segments) = 1 THEN segments[1]
  ELSE segments[1] \o <<" ">> \o JoinWithSpaces(Tail(segments))

\* scopes is scope split on single spaces: no segment holds a space, and the
\* segments with one space between neighbours are scope again
IsSplitOf(scopes, scope) ==
  /\ Len(scopes) >= 1
  /\ \A i \in 1..Len(scopes) : \A j \in 1..Len(scopes[i]) : scopes[i][j] # " "
  /\ JoinWithSpaces(scopes) = scope

C4_SuccessReturnsAuthInfo ==
  \A c \in Calls :
    ( /\ IsVerify(calls[c]) /\ IntrospectedActive(calls[c]) /\ ClientsListed(calls[c])
      /\ calls[c].introspectResponse.json.client_id \in ListedIds(calls[c]) ) =>
      /\ Succeeded(calls[c])
      /\ DOMAIN calls[c].value = {"type", "token", "clientId", "scopes", "expiresAt"}
      /\ calls[c].value.token = calls[c].token
      /\ calls[c].value.clientId = calls[c].introspectResponse.json.client_id
      /\ calls[c].value.expiresAt = calls[c].introspectResponse.json.exp
      /\ IF calls[c].introspectResponse.json.scope = NoScope
         THEN calls[c].value.scopes = <<>>
         ELSE IsSplitOf(calls[c].value.scopes, calls[c].introspectResponse.json.scope)

C4_Witness ==
  \E c \in Calls :
    /\ IsVerify(calls[c]) /\ IntrospectedActive(calls[c]) /\ ClientsListed(calls[c])
    /\ calls[c].introspectResponse.json.client_id \in ListedIds(calls[c])
    /\ Succeeded(calls[c])
    /\ calls[c].value.scopes = << <<"openid">>, <<>>, <<"email">> >>

(***************************************************************************)
(* C5.  getClient dispatches on providerType only: for providerType =      *)
(* network it issues exactly GET {networkProjectUrl}/admin/clients with    *)
(* Authorization: Bearer {networkProjectApiKey}; for providerType = hydra  *)
(* it issues exactly GET {hydraAdminUrl}/admin/clients with the Hydra API  *)
(* key; the other backend's URL and key are never used, also when both     *)
(* pairs are configured.                                                   *)
(***************************************************************************)
\* the admin URL and the API key of the backend that providerType selects, and those
\* of the other backend, as the options gave them
SelectedUrl ==
  IF options.providerType = "network" THEN options.networkProjectUrl
  ELSE options.hydraAdminUrl

SelectedKey ==
  IF options.providerType = "network" THEN options.networkProjectApiKey
  ELSE options.hydraApiKey

OtherUrl ==
  IF options.providerType = "network" THEN options.hydraAdminUrl
  ELSE options.networkProjectUrl

OtherKey ==
  IF options.providerType = "network" THEN options.hydraApiKey
  ELSE options.networkProjectApiKey

\* both backend pairs are configured
BothPairsConfigured ==
  /\ TruthyStr(options.networkProjectUrl) /\ TruthyStr(options.networkProjectApiKey)
  /\ TruthyStr(options.hydraAdminUrl) /\ TruthyStr(options.hydraApiKey)

\* the text x occurs among the parts of the request's URL or Authorization header
UsedIn(r, x) ==
  \/ \E i \in 1..Len(r.url) : r.url[i] = x
  \/ \E i \in 1..Len(r.authorization) : r.authorization[i] = x

C5_GetClientDispatch ==
  \A c \in Calls :
    (IsGetClient(calls[c]) /\ Len(calls[c].fetches) > 0) =>
      /\ Len(calls[c].fetches) = 1
      /\ calls[c].fetches[1].method = "GET"
      /\ calls[c].fetches[1].url = <<SelectedUrl, "/admin/clients">>
      /\ TruthyStr(SelectedKey) =>
           calls[c].fetches[1].authorization = <<"Bearer ", SelectedKey>>
      /\ TruthyStr(OtherUrl) => ~UsedIn(calls[c].fetches[1], OtherUrl)
      /\ TruthyStr(OtherKey) => ~UsedIn(calls[c].fetches[1], OtherKey)

C5_Witness ==
  \E c \in Calls :
    /\ IsGetClient(calls[c]) /\ Len(calls[c].fetches) = 1
    /\ BothPairsConfigured
    /\ options.providerType = "hydra"
    /\ calls[c].fetches[1].authorization = <<"Bearer ", "hydra-api-key">>

(***************************************************************************)
(* C6.  getClient(id) returns "not found" (undefined) and raises no error  *)
(* whenever the backend call succeeds and the returned list contains no    *)
(* client whose client_id equals id; otherwise, when the list contains     *)
(* such a client, it returns that client.                                  *)
(***************************************************************************)
\* the last element of the list with the given client_id
LastListed(call, id) ==
  LET json == call.clientsResponse.json
      last == CHOOSE i \in 1..Len(json) :
                /\ json[i].client_id = id
                /\ \A j \in (i + 1)..Len(json) : json[j].client_id # id
  IN  json[last]

C6_GetClientFoundOrUndefined ==
  \A c \in Calls :
    (IsGetClient(calls[c]) /\ ClientsListed(calls[c])) =>
      /\ Succeeded(calls[c])
      /\ IF calls[c].clientId \in ListedIds(calls[c])
         THEN /\ calls[c].value.type = "client"
              /\ calls[c].value.client_id = calls[c].clientId
              /\ calls[c].value.client_secret =
                   LastListed(calls[c], calls[c].clientId).client_secret
              /\ calls[c].value.redirect_uris =
                   LastListed(calls[c], calls[c].clientId).redirect_uris
         ELSE calls[c].value = UndefinedV

(***************************************************************************)
(* C7.  getClient fails with an error (never "not found") when the admin   *)
(* base URL of the selected backend is unset or when the list-clients HTTP *)
(* call returns a non-success status; in the non-success case the error    *)
(* message includes the HTTP status text.                                  *)
(***************************************************************************)
C7_GetClientFailsOnUnsetUrlOrStatus ==
  \A c \in Calls :
    IsGetClient(calls[c]) =>
      /\ ~TruthyStr(SelectedUrl) =>
           /\ Failed(calls[c])
           /\ calls[c].error.name = "Error"
      /\ (calls[c].clientsResponse.kind = "http" /\ ~Ok(calls[c].clientsResponse)) =>
           /\ Failed(calls[c])
           /\ calls[c].error.name = "Error"
           /\ Contains(calls[c].error.message, <<calls[c].clientsResponse.statusText>>)

C7_Witness ==
  \E c \in Calls :
    /\ IsGetClient(calls[c])
    /\ calls[c].clientsResponse.kind = "http" /\ ~Ok(calls[c].clientsResponse)
    /\ Failed(calls[c])
    /\ calls[c].error.message = <<"Failed", "to", "list", "OAuth2", "clients:", "Server Error">>

(***************************************************************************)
(* C8.  When a required backend URL or credential (API key) of the         *)
(* selected provider type is missing, every backend operation that needs   *)
(* it (getClient, verifyAccessToken) fails with a descriptive              *)
(* configuration error before any network call is issued.                  *)
(***************************************************************************)
C8_MissingConfigurationFailsFast ==
  \A c \in Calls :
    ( /\ IsGetClient(calls[c]) \/ IsVerify(calls[c])
      /\ ~TruthyStr(SelectedUrl) \/ ~TruthyStr(SelectedKey) ) =>
      /\ Failed(calls[c])
      /\ Len(calls[c].fetches) = 0
      /\ Contains(calls[c].error.message, <<"is", "required">>)

(***************************************************************************)
(* C9.  In every constructed provider, exactly one of the two              *)
(* backend-credential pairs (networkProjectUrl + networkProjectApiKey,     *)
(* hydraAdminUrl + hydraApiKey) is populated, and it is the pair matching  *)
(* providerType; the other pair is absent.                                 *)
(***************************************************************************)
NetworkPairPopulated ==
  provider._networkProjectUrl # Undefined /\ provider._networkProjectApiKey # Undefined

NetworkPairAbsent ==
  provider._networkProjectUrl = Undefined /\ provider._networkProjectApiKey = Undefined

HydraPairPopulated ==
  provider._hydraAdminUrl # Undefined /\ provider._hydraApiKey # Undefined

HydraPairAbsent ==
  provider._hydraAdminUrl = Undefined /\ provider._hydraApiKey = Undefined

\* the claim as stated
C9_ExactlyOnePairPopulated ==
  IF provider._providerType = "network"
  THEN NetworkPairPopulated /\ HydraPairAbsent
  ELSE HydraPairPopulated /\ NetworkPairAbsent

\* C9 as amended: in every constructed provider, providerType and each member of the
\* two backend-credential pairs hold exactly what the options gave, populated or
\* absent; the constructor does not require that exactly one pair is populated
C9_PairsAsGiven ==
  /\ provider._providerType = options.providerType
  /\ provider._networkProjectUrl = options.networkProjectUrl
  /\ provider._networkProjectApiKey = options.networkProjectApiKey
  /\ provider._hydraAdminUrl = options.hydraAdminUrl
  /\ provider._hydraApiKey = options.hydraApiKey

\* the hydra provider of the tests, built on options that also carry the network pair,
\* serving a getClient
C9_Witness ==
  /\ provider._providerType = "hydra"
  /\ HydraPairPopulated /\ NetworkPairPopulated
  /\ \E c \in Calls : IsGetClient(calls[c]) /\ Succeeded(calls[c])

(***************************************************************************)
(* C10.  Optional capabilities are determined by the endpoints alone:      *)
(* clientsStore.registerClient is present if and only if registrationUrl   *)
(* is configured, and revokeToken is present if and only if revocationUrl  *)
(* is configured; getClient is always present.  An empty string configures *)
(* no URL.                                                                 *)
(***************************************************************************)
Configured(url) == url # Undefined /\ url # ""

C10_CapabilitiesFollowEndpoints ==
  /\ ClientsStore(provider).registerClient # Undefined
       <=> Configured(options.endpoints.registrationUrl)
  /\ provider.revokeToken # Undefined <=> Configured(options.endpoints.revocationUrl)
  /\ ClientsStore(provider).getClient # Undefined

C10_Witness ==
  /\ Configured(options.endpoints.registrationUrl)
  /\ ~Configured(options.endpoints.revocationUrl)
  /\ ClientsStore(provider).registerClient = "function"
  /\ provider.revokeToken = Undefined
  /\ \E c \in Calls : calls[c].pc = "done"

(***************************************************************************)
(* Vocabulary of the properties of authorize.                              *)
(***************************************************************************)
IsAuthorize(call) == call.op = "authorize"

\* the call has ended after exactly one res.redirect
Redirected(call) == Succeeded(call) /\ Len(call.redirects) = 1

\* the part of a text a form-encoded part stands for
FormDecodePart(part) ==
  CASE part = "+" -> " "
    [] part = "%2B" -> "+"
    [] part = "http%3A%2F%2Flocalhost%3A3000%2Fcallback" -> "http://localhost:3000/callback"
    [] part = "app%3A%2F%2Fcb%3Fx%3D1" -> "app://cb?x=1"
    [] OTHER -> part

\* the positions of the parameter `name` in a serialised query
ParamAt(query, name) == {i \in 1..Len(query) : query[i].name = name}

\* the query carries the parameter `name` exactly once
HasParam(query, name) == Cardinality(ParamAt(query, name)) = 1

\* the decoded value of the parameter `name` of a query that carries it
ParamValue(query, name) ==
  LET v == query[CHOOSE i \in ParamAt(query, name) : TRUE].value
  IN  [i \in 1..Len(v) |-> FormDecodePart(v[i])]

\* the value of a hexadecimal digit, 16 for any other character
HexValue(ch) ==
  IF \E d \in 1..16 : HexDigits[d] = ch THEN (CHOOSE d \in 1..16 : HexDigits[d] = ch) - 1
  ELSE 16

(***************************************************************************)
(* C11.  authorize with params.state unset (undefined or empty) redirects   *)
(* to a URL whose state parameter is a generated value: 64 hexadecimal     *)
(* characters that encode the 32 random bytes drawn; with params.state     *)
(* set, the state parameter of the redirect URL is the given state,        *)
(* unchanged.                                                              *)
(***************************************************************************)
C11_StateGeneratedOrEchoed ==
  \A c \in Calls :
    IsAuthorize(calls[c]) /\ calls[c].pc = "done" =>
      /\ Redirected(calls[c])
      /\ HasParam(calls[c].redirects[1].search, "state")
      /\ LET state == ParamValue(calls[c].redirects[1].search, "state")
             given == calls[c].paramsGiven.state
         IN  IF given # NoState /\ given # <<>> THEN state = given
             ELSE /\ Len(state) = 64
                  /\ Len(calls[c].random) = 32
                  /\ \A k \in 1..32 :
                       /\ HexValue(state[2 * k - 1]) < 16
                       /\ HexValue(state[2 * k]) < 16
                       /\ 16 * HexValue(state[2 * k - 1]) + HexValue(state[2 * k])
                            = calls[c].random[k]

\* an authorize without a state has redirected with a generated state of varying bytes,
\* and the given state needed encoding
C11_Witness ==
  \E c \in Calls :
    /\ IsAuthorize(calls[c]) /\ Redirected(calls[c])
    /\ calls[c].paramsGiven.state = NoState
    /\ Len(ParamValue(calls[c].redirects[1].search, "state")) = 64
    /\ calls[c].random[1] # calls[c].random[2]

(***************************************************************************)
(* C12.  authorize with an empty params.scopes substitutes the default     *)
(* scope: the scope parameter of the redirect URL is exactly "ory.admin";  *)
(* with a non-empty list the scope parameter is the scopes joined by       *)
(* single spaces in their order; the scope parameter is present only when  *)
(* scopes are present and non-empty after defaulting (absent when          *)
(* params.scopes is undefined).                                            *)
(***************************************************************************)
C12_ScopeDefaultedAndJoined ==
  \A c \in Calls :
    IsAuthorize(calls[c]) /\ calls[c].pc = "done" =>
      /\ Redirected(calls[c])
      /\ LET query == calls[c].redirects[1].search
             given == calls[c].paramsGiven.scopes
         IN  IF given = NoScopes THEN ParamAt(query, "scope") = {}
             ELSE /\ HasParam(query, "scope")
                  /\ LET scope == ParamValue(query, "scope")
                     IN  IF given = <<>> THEN scope = <<"ory.admin">>
                         ELSE /\ Len(scope) = 2 * Len(given) - 1
                              /\ \A i \in 1..Len(given) : scope[2 * i - 1] = given[i]
                              /\ \A i \in 1..(Len(given) - 1) : scope[2 * i] = " "

\* an authorize with the empty scope list has redirected with the default scope
C12_Witness ==
  \E c \in Calls :
    /\ IsAuthorize(calls[c]) /\ Redirected(calls[c])
    /\ calls[c].paramsGiven.scopes = <<>>
    /\ ParamValue(calls[c].redirects[1].search, "scope") = <<"ory.admin">>

(***************************************************************************)
(* C13.  Every redirect authorize issues targets the configured            *)
(* authorizationUrl and carries client_id, response_type = code,           *)
(* redirect_uri, code_challenge and code_challenge_method = S256, each     *)
(* once and with the value of the client and the params; no redirect       *)
(* carries another code_challenge_method.                                  *)
(***************************************************************************)
C13_RedirectCarriesPkceS256 ==
  \A c \in Calls :
    /\ ~IsAuthorize(calls[c]) => calls[c].redirects = <<>>
    /\ IsAuthorize(calls[c]) /\ calls[c].pc = "done" => Redirected(calls[c])
    /\ \A i \in 1..Len(calls[c].redirects) :
         LET url == calls[c].redirects[i]
         IN  /\ url.base = options.endpoints.authorizationUrl
             /\ \A name \in {"client_id", "response_type", "redirect_uri", "code_challenge",
                             "code_challenge_method"} : HasParam(url.search, name)
             /\ ParamValue(url.search, "client_id") = <<calls[c].client.client_id>>
             /\ ParamValue(url.search, "response_type") = <<"code">>
             /\ ParamValue(url.search, "redirect_uri") = <<calls[c].paramsGiven.redirectUri>>
             /\ ParamValue(url.search, "code_challenge")
                  = <<calls[c].paramsGiven.codeChallenge>>
             /\ \A k \in ParamAt(url.search, "code_challenge_method") :
                  url.search[k].value = <<"S256">>

\* an authorize of the public client has redirected, its redirect URI percent-encoded
C13_Witness ==
  \E c \in Calls :
    /\ IsAuthorize(calls[c]) /\ Redirected(calls[c])
    /\ calls[c].client.client_id = "another-client-id"
    /\ \E k \in ParamAt(calls[c].redirects[1].search, "redirect_uri") :
         calls[c].redirects[1].search[k].value # <<calls[c].paramsGiven.redirectUri>>

IsChallenge(call) == call.op = "challengeForAuthorizationCode"

(***************************************************************************)
(* C14.  challengeForAuthorizationCode returns the empty challenge for     *)
(* every client and code; it issues no backend call, redirects nothing,    *)
(* logs nothing and leaves the provider as it was constructed, so that its *)
(* result depends on no local state.                                       *)
(***************************************************************************)
C14_ChallengeIsEmptyAndLocal ==
  \A c \in Calls :
    IsChallenge(calls[c]) =>
      /\ calls[c].fetches = <<>>
      /\ calls[c].redirects = <<>>
      /\ calls[c].logged = <<>>
      /\ provider = Constructor(options)
      /\ calls[c].pc = "done" =>
           Succeeded(calls[c]) /\ calls[c].value = [type |-> "string", value |-> ""]

\* a challengeForAuthorizationCode for a confidential client and a code has returned
C14_Witness ==
  \E c \in Calls :
    /\ IsChallenge(calls[c]) /\ Succeeded(calls[c])
    /\ calls[c].client.client_secret = "test-secret"
    /\ calls[c].authorizationCode = "auth_code"

(***************************************************************************)
(* Vocabulary of the properties of the form-posting operations.            *)
(***************************************************************************)
IsExchange(call) == call.op = "exchangeAuthorizationCode"

IsRefresh(call) == call.op = "exchangeRefreshToken"

\* the call received an HTTP response with a 2xx / another status
AnsweredOk(call) == call.response.kind = "http" /\ Ok(call.response)

AnsweredNotOk(call) == call.response.kind = "http" /\ ~Ok(call.response)

\* r is a form POST to url
IsFormPost(r, url) ==
  /\ r.method = "POST"
  /\ r.url = url
  /\ r.contentType = "application/x-www-form-urlencoded"

\* the form carries `name` once with the string value, which is never undefined
Carries(form, name, value) ==
  HasParam(form, name) /\ value # Undefined /\ ParamValue(form, name) = <<value>>

\* the form carries `name` with the string value if and only if the value is a
\* non-empty string
CarriesIff(form, name, value) ==
  IF value # Undefined /\ value # "" THEN Carries(form, name, value)
  ELSE ParamAt(form, name) = {}

\* the names of the parameters of a form
ParamNames(form) == {form[i].name : i \in 1..Len(form)}

\* the decimal digits of a three-digit status
Decimal(n) ==
  HexDigits[(n \div 100) + 1] \o HexDigits[((n \div 10) % 10) + 1] \o HexDigits[(n % 10) + 1]

\* the call ended as the token schema decides for the body of its 2xx response:
\* the known keys of a valid body returned, a body without a required key refused
EndedWithValidatedTokens(call) ==
  LET json == call.response.json
  IN  IF json.access_token # Undefined /\ json.token_type # Undefined
      THEN /\ Succeeded(call)
           /\ call.value = [type |-> "tokens", access_token |-> json.access_token,
                            token_type |-> json.token_type, expires_in |-> json.expires_in,
                            refresh_token |-> json.refresh_token]
      ELSE Failed(call) /\ call.error.name = "ZodError"

\* the call failed with an error whose message carries the digits of the status
FailedWithStatusCode(call) ==
  /\ Failed(call)
  /\ call.value = UndefinedV
  /\ Contains(call.error.message, <<Decimal(call.response.status)>>)

(***************************************************************************)
(* C15.  exchangeAuthorizationCode issues one POST to tokenUrl whose form  *)
(* body has grant_type = authorization_code, client_id, code, and          *)
(* redirect_uri equal to the first redirect URI of the client (when the    *)
(* client has one), carries client_secret if and only if the client has a  *)
(* (non-empty) secret and code_verifier if and only if a (non-empty)       *)
(* verifier was supplied, and nothing else; on a 2xx response it returns   *)
(* the schema-validated token set, a body the schema refuses being an      *)
(* error and never a result.                                               *)
(***************************************************************************)
C15_ExchangePostsCodeGrant ==
  \A c \in Calls :
    IsExchange(calls[c]) =>
      /\ Len(calls[c].fetches) = 1
      /\ IsFormPost(calls[c].fetches[1], options.endpoints.tokenUrl)
      /\ LET form == calls[c].fetches[1].body
             client == calls[c].client
         IN  /\ Carries(form, "grant_type", "authorization_code")
             /\ Carries(form, "client_id", client.client_id)
             /\ Carries(form, "code", calls[c].authorizationCode)
             /\ HasParam(form, "redirect_uri")
             /\ Len(client.redirect_uris) >= 1 =>
                  Carries(form, "redirect_uri", client.redirect_uris[1])
             /\ CarriesIff(form, "client_secret", client.client_secret)
             /\ CarriesIff(form, "code_verifier", calls[c].codeVerifier)
             /\ ParamNames(form) \subseteq {"grant_type", "client_id", "code", "redirect_uri",
                                            "client_secret", "code_verifier"}
      /\ calls[c].pc = "done" /\ AnsweredOk(calls[c]) => EndedWithValidatedTokens(calls[c])

\* a code exchange of a confidential client with a verifier was answered 201 with
\* tokens and an unknown key, and has returned the tokens
C15_Witness ==
  \E c \in Calls :
    /\ IsExchange(calls[c]) /\ Succeeded(calls[c])
    /\ calls[c].client.client_secret = "test-secret"
    /\ calls[c].codeVerifier = "verifier"
    /\ calls[c].response.status = 201
    /\ calls[c].response.json.extra = "unknown-key"
    /\ calls[c].value.refresh_token = "new_refresh_token"

(***************************************************************************)
(* C16.  exchangeAuthorizationCode, on any non-2xx response of the token   *)
(* endpoint, fails with an error whose message contains the numeric status *)
(* code and the literal "Token exchange failed", and returns no token set. *)
(***************************************************************************)
C16_ExchangeFailsWithStatusCode ==
  \A c \in Calls :
    IsExchange(calls[c]) /\ calls[c].pc = "done" /\ AnsweredNotOk(calls[c]) =>
      /\ FailedWithStatusCode(calls[c])
      /\ Contains(calls[c].error.message, <<"Token", "exchange", "failed">>)

\* a code exchange answered 401 has failed with the status in its message
C16_Witness ==
  \E c \in Calls :
    /\ IsExchange(calls[c]) /\ Failed(calls[c])
    /\ calls[c].response.kind = "http" /\ calls[c].response.status = 401
    /\ Contains(calls[c].error.message, <<"401">>)

(***************************************************************************)
(* C17.  exchangeRefreshToken issues one POST to tokenUrl whose form body  *)
(* has grant_type = refresh_token, client_id and refresh_token, carries    *)
(* client_secret if and only if the client has a (non-empty) secret and    *)
(* scope, the scopes joined by single spaces, if and only if scopes were   *)
(* supplied and non-empty; a 2xx response yields the schema-validated      *)
(* token set and a non-2xx response fails with an error carrying the       *)
(* numeric status code.                                                    *)
(***************************************************************************)
C17_RefreshPostsRefreshGrant ==
  \A c \in Calls :
    IsRefresh(calls[c]) =>
      /\ Len(calls[c].fetches) = 1
      /\ IsFormPost(calls[c].fetches[1], options.endpoints.tokenUrl)
      /\ LET form == calls[c].fetches[1].body
             scopes == calls[c].scopes
         IN  /\ Carries(form, "grant_type", "refresh_token")
             /\ Carries(form, "client_id", calls[c].client.client_id)
             /\ Carries(form, "refresh_token", calls[c].refreshToken)
             /\ CarriesIff(form, "client_secret", calls[c].client.client_secret)
             /\ IF scopes = NoScopes \/ scopes = <<>> THEN ParamAt(form, "scope") = {}
                ELSE /\ HasParam(form, "scope")
                     /\ LET scope == ParamValue(form, "scope")
                        IN  /\ Len(scope) = 2 * Len(scopes) - 1
                            /\ \A i \in 1..Len(scopes) : scope[2 * i - 1] = scopes[i]
                            /\ \A i \in 1..(Len(scopes) - 1) : scope[2 * i] = " "
             /\ ParamNames(form) \subseteq {"grant_type", "client_id", "refresh_token",
                                            "client_secret", "scope"}
      /\ calls[c].pc = "done" /\ AnsweredOk(calls[c]) => EndedWithValidatedTokens(calls[c])
      /\ calls[c].pc = "done" /\ AnsweredNotOk(calls[c]) => FailedWithStatusCode(calls[c])

\* a refresh with two scopes was answered 200 with tokens and has returned them
C17_Witness ==
  \E c \in Calls :
    /\ IsRefresh(calls[c]) /\ Succeeded(calls[c])
    /\ calls[c].scopes = <<"openid", "profile">>
    /\ calls[c].response.status = 200
    /\ calls[c].value.access_token = "new_acc_token"

(***************************************************************************)
(* Vocabulary of the properties of revokeToken and registerClient.         *)
(***************************************************************************)
IsRevoke(call) == call.op = "revokeToken"

IsRegister(call) == call.op = "registerClient"

\* the JSON text carries the member `name` with the value
JsonCarries(json, name, value) ==
  /\ Cardinality({i \in 1..Len(json) : json[i].name = name}) = 1
  /\ \A i \in 1..Len(json) : json[i].name = name => json[i].value = value

\* the JSON text is the client: each member the client has, none it has not
IsJsonOf(json, client) ==
  /\ JsonCarries(json, "client_id", <<client.client_id>>)
  /\ JsonCarries(json, "redirect_uris", client.redirect_uris)
  /\ IF client.client_secret # Undefined
     THEN JsonCarries(json, "client_secret", <<client.client_secret>>)
     ELSE \A i \in 1..Len(json) : json[i].name # "client_secret"
  /\ Len(json) <= 3

(***************************************************************************)
(* C18.  When revocationUrl is configured, each revokeToken call performs  *)
(* exactly one POST to revocationUrl whose form carries token and          *)
(* client_id, client_secret if and only if the client has a (non-empty)    *)
(* secret and token_type_hint if and only if a (non-empty) hint was        *)
(* supplied, and nothing else; a 2xx response completes the call with no   *)
(* return value and a non-2xx response fails it with an error carrying the *)
(* numeric status code.                                                    *)
(***************************************************************************)
C18_RevokePostsOnce ==
  \A c \in Calls :
    IsRevoke(calls[c]) =>
      /\ options.endpoints.revocationUrl # Undefined
      /\ Len(calls[c].fetches) = 1
      /\ IsFormPost(calls[c].fetches[1], options.endpoints.revocationUrl)
      /\ LET form == calls[c].fetches[1].body
         IN  /\ Carries(form, "token", calls[c].request.token)
             /\ Carries(form, "client_id", calls[c].client.client_id)
             /\ CarriesIff(form, "client_secret", calls[c].client.client_secret)
             /\ CarriesIff(form, "token_type_hint", calls[c].request.token_type_hint)
             /\ ParamNames(form) \subseteq {"token", "client_id", "client_secret",
                                            "token_type_hint"}
      /\ calls[c].pc = "done" /\ AnsweredOk(calls[c]) =>
           Succeeded(calls[c]) /\ calls[c].value = UndefinedV
      /\ calls[c].pc = "done" /\ AnsweredNotOk(calls[c]) => FailedWithStatusCode(calls[c])

\* a revocation with a hint for a confidential client was answered 500 and has failed
C18_Witness ==
  \E c \in Calls :
    /\ IsRevoke(calls[c]) /\ Failed(calls[c])
    /\ calls[c].request.token_type_hint = "refresh_token"
    /\ calls[c].client.client_secret = "test-secret"
    /\ calls[c].response.kind = "http" /\ calls[c].response.status = 500
    /\ Contains(calls[c].error.message, <<"500">>)

(***************************************************************************)
(* C19.  registerClient issues exactly one POST to registrationUrl with    *)
(* the client as JSON; on a 2xx response it returns the schema-validated   *)
(* client the backend echoed (a body the schema refuses being an error);   *)
(* on a non-2xx response it fails with an error carrying the numeric       *)
(* status code, without a second request.                                  *)
(***************************************************************************)
C19_RegisterPostsOnce ==
  \A c \in Calls :
    IsRegister(calls[c]) =>
      /\ Len(calls[c].fetches) = 1
      /\ calls[c].fetches[1].method = "POST"
      /\ calls[c].fetches[1].url = options.endpoints.registrationUrl
      /\ calls[c].fetches[1].url \notin {Undefined, ""}
      /\ calls[c].fetches[1].contentType = "application/json"
      /\ IsJsonOf(calls[c].fetches[1].body, calls[c].client)
      /\ calls[c].pc = "done" /\ AnsweredOk(calls[c]) =>
           LET json == calls[c].response.json
           IN  IF json.client_id # Undefined
               THEN /\ Succeeded(calls[c])
                    /\ calls[c].value =
                         [type |-> "client", client_id |-> json.client_id,
                          client_secret |-> json.client_secret,
                          redirect_uris |-> json.redirect_uris]
               ELSE Failed(calls[c]) /\ calls[c].error.name = "ZodError"
      /\ calls[c].pc = "done" /\ AnsweredNotOk(calls[c]) => FailedWithStatusCode(calls[c])

\* a registration of the public client was answered 201 with another client, which
\* has been returned
C19_Witness ==
  \E c \in Calls :
    /\ IsRegister(calls[c]) /\ Succeeded(calls[c])
    /\ calls[c].client.client_id = "another-client-id"
    /\ calls[c].response.status = 201
    /\ calls[c].value.client_id = "test-client"
    /\ calls[c].value.client_secret = "test-secret"

\* the text a base64 string encodes
Base64Decode(b) ==
  CASE b = "dGVzdC10b2tlbg==" -> "test-token"
    [] b = "aW5hY3RpdmUtdG9rZW4=" -> "inactive-token"
    [] OTHER -> Undefined

(***************************************************************************)
(* C20.  The introspection call is POST {adminBase}/admin/oauth2/introspect *)
(* on the admin base URL of the selected backend, with the body token =    *)
(* the token under verification and token_type_hint = access_token; its    *)
(* Authorization header is Basic base64(token) for hydra and Bearer        *)
(* {networkProjectApiKey} for network, never the scheme of the other       *)
(* backend.                                                                *)
(***************************************************************************)
C20_IntrospectionRequest ==
  \A c \in Calls :
    IsVerify(calls[c]) /\ Len(calls[c].fetches) > 0 =>
      LET r == calls[c].fetches[1]
      IN  /\ r.method = "POST"
          /\ r.url = <<SelectedUrl, "/admin/oauth2/introspect">>
          /\ TruthyStr(SelectedUrl)
          /\ r.contentType = "application/x-www-form-urlencoded"
          /\ r.body = [token |-> calls[c].token, token_type_hint |-> "access_token"]
          /\ Len(r.authorization) = 2
          /\ IF options.providerType = "hydra"
             THEN /\ r.authorization[1] = "Basic "
                  /\ Base64Decode(r.authorization[2]) = calls[c].token
             ELSE /\ r.authorization[1] = "Bearer "
                  /\ TruthyStr(options.networkProjectApiKey) =>
                       r.authorization[2] = options.networkProjectApiKey

\* a hydra provider that also carries the network pair has introspected a token with
\* Basic authentication
C20_Witness ==
  \E c \in Calls :
    /\ IsVerify(calls[c]) /\ Len(calls[c].fetches) > 0
    /\ options.providerType = "hydra"
    /\ BothPairsConfigured
    /\ calls[c].token = "inactive-token"
    /\ calls[c].fetches[1].authorization = <<"Basic ", "aW5hY3RpdmUtdG9rZW4=">>

(***************************************************************************)
(* C21.  Nothing is cached: with the result of another call still at hand, *)
(* every getClient call issues its own list-clients request and every      *)
(* verifyAccessToken call whose introspection reported the token active    *)
(* issues its own as well; two calls of the same operation with the same   *)
(* argument that received the same responses end the same way, whatever    *)
(* came before them, so that a result depends on the responses of its own  *)
(* call only.                                                              *)
(***************************************************************************)
C21_NothingCached ==
  \A c \in ConcurrentCalls :
    /\ IsGetClient(calls[c]) =>
         Len(calls[c].fetches) = 1 /\ IsListRequest(calls[c].fetches[1])
    /\ IsVerify(calls[c]) /\ IntrospectedActive(calls[c]) =>
         Len(calls[c].fetches) = 2 /\ IsListRequest(calls[c].fetches[2])
    /\ calls[c].pc = "done" /\ calls[c].op \in {"getClient", "verifyAccessToken"}
         /\ calls[c].outcome = "return" =>
           calls[c].clientsResponse.kind = "http" /\ Ok(calls[c].clientsResponse)
    /\ \A d \in ConcurrentCalls :
         ( /\ calls[c].pc = "done" /\ calls[d].pc = "done"
           /\ calls[c].op = calls[d].op
           /\ calls[c].clientId = calls[d].clientId
           /\ calls[c].token = calls[d].token
           /\ calls[c].introspectResponse = calls[d].introspectResponse
           /\ calls[c].clientsResponse = calls[d].clientsResponse ) =>
           /\ calls[c].outcome = calls[d].outcome
           /\ calls[c].value = calls[d].value
           /\ calls[c].error = calls[d].error

\* with a getClient that found test-client in its list still at hand, a
\* verifyAccessToken for that client fetched its own, empty list and failed
C21_Witness ==
  /\ IsGetClient(calls[1]) /\ Succeeded(calls[1])
  /\ calls[1].clientId = "test-client" /\ calls[1].value.type = "client"
  /\ IsVerify(calls[2]) /\ Failed(calls[2])
  /\ calls[2].introspection.client_id = "test-client"
  /\ calls[2].clientsResponse.kind = "http" /\ Ok(calls[2].clientsResponse)
  /\ calls[2].clientsResponse.json = <<>>
  /\ Len(calls[2].fetches) = 2

(***************************************************************************)
(* C22.  Under every interleaving of two concurrent getClient calls on one *)
(* provider, each call issues its own fetch, a step of one call leaves the *)
(* other call (its request, list, mapping and result) as it was, and the   *)
(* result of a call is the one its own response determines: for a list of  *)
(* well-formed clients and an id that names no built-in property of the    *)
(* mapping, the last listed client with that id, or undefined.             *)
(***************************************************************************)
C22_ConcurrentGetClientsSelfContained ==
  /\ [](\A c \in ConcurrentCalls :
          IsGetClient(calls[c]) =>
            /\ Len(calls[c].fetches) = 1
            /\ ( /\ ClientsListed(calls[c])
                 /\ calls[c].clientId \notin ObjectPrototypeKeys \cup {"__proto__"} ) =>
                 /\ Succeeded(calls[c])
                 /\ IF calls[c].clientId \in ListedIds(calls[c])
                    THEN /\ calls[c].value.type = "client"
                         /\ calls[c].value.client_id = calls[c].clientId
                         /\ calls[c].value.client_secret =
                              LastListed(calls[c], calls[c].clientId).client_secret
                    ELSE calls[c].value = UndefinedV)
  /\ [][\A c, d \in ConcurrentCalls :
          c # d /\ calls'[c] # calls[c] => calls'[d] = calls[d]]_vars

\* one getClient has returned the client of its list while the other, for the same
\* id, is still waiting for its response
C22_Witness ==
  \E c, d \in ConcurrentCalls :
    /\ c # d
    /\ IsGetClient(calls[c]) /\ Succeeded(calls[c]) /\ calls[c].value.type = "client"
    /\ IsGetClient(calls[d]) /\ calls[d].pc = "clientLookup"
    /\ calls[d].clientId = calls[c].clientId

(***************************************************************************)
(* Vocabulary of the properties of failures.                               *)
(***************************************************************************)
\* the fetch was rejected or answered with a status outside 2xx
BackendFailure(resp) == resp.kind = "rejected" \/ (resp.kind = "http" /\ ~Ok(resp))

\* e is the error the step that received resp raises: the TypeError of the rejected
\* fetch, or the error the step builds from the response
IsRaisedAt(e, resp, name, message) ==
  IF resp.kind = "rejected" THEN e.name = "TypeError"
  ELSE e.name = name /\ e.message = message

(***************************************************************************)
(* C23.  No operation retries or recovers.  Per invocation, authorize and  *)
(* challengeForAuthorizationCode issue no backend call and authorize       *)
(* exactly one redirect; getClient, registerClient,                        *)
(* exchangeAuthorizationCode, exchangeRefreshToken and revokeToken issue   *)
(* at most one backend call and verifyAccessToken at most two.  The first  *)
(* backend failure (a rejected fetch or a status outside 2xx) ends the     *)
(* invocation with no further call, and the caller receives the error      *)
(* raised at the failing step, whatever catch sites it passed.             *)
(***************************************************************************)
C23_NoRetryNoRecovery ==
  \A c \in Calls :
    LET call == calls[c]
    IN  /\ call.op \in {"authorize", "challengeForAuthorizationCode"} => call.fetches = <<>>
        /\ IsAuthorize(call) => Len(call.redirects) = (IF call.pc = "done" THEN 1 ELSE 0)
        /\ call.op \in {"getClient", "registerClient", "exchangeAuthorizationCode",
                        "exchangeRefreshToken", "revokeToken"} => Len(call.fetches) <= 1
        /\ IsVerify(call) => Len(call.fetches) <= 2
        /\ BackendFailure(call.introspectResponse) =>
             /\ Failed(call) /\ Len(call.fetches) = 1
             /\ IsRaisedAt(call.error, call.introspectResponse, "Error",
                           <<"Token", "introspection", "failed:",
                             call.introspectResponse.statusText>>)
        /\ BackendFailure(call.clientsResponse) =>
             /\ Failed(call) /\ Len(call.fetches) = (IF IsVerify(call) THEN 2 ELSE 1)
             /\ call.logged # <<>>
             /\ IsRaisedAt(call.error, call.clientsResponse, "Error",
                           <<"Failed", "to", "list", "OAuth2", "clients:",
                             call.clientsResponse.statusText>>)
        /\ BackendFailure(call.response) =>
             /\ Failed(call) /\ Len(call.fetches) = 1
             /\ call.response.kind = "http" =>
                  /\ call.error.name = "ServerError"
                  /\ call.error.message[Len(call.error.message)]
                       = Decimal(call.response.status)
             /\ call.response.kind = "rejected" => call.error.name = "TypeError"

\* a verifyAccessToken whose list-clients call was answered 500 has failed after two
\* calls with the error of fetchClients, which two catch sites logged
C23_Witness ==
  \E c \in Calls :
    /\ IsVerify(calls[c]) /\ Failed(calls[c])
    /\ calls[c].clientsResponse.kind = "http" /\ calls[c].clientsResponse.status = 500
    /\ Len(calls[c].fetches) = 2
    /\ Len(calls[c].logged) = 2
    /\ calls[c].error.message
         = <<"Failed", "to", "list", "OAuth2", "clients:", "Server Error">>

(***************************************************************************)
(* C24.  After any sequence of operations on a provider its configuration  *)
(* is as constructed: endpoints, providerType and both credential pairs    *)
(* hold the values of the options, skipLocalPasswordGrant is false,        *)
(* skipLocalPkceValidation is true, and revokeToken and registerClient are *)
(* offered exactly when they were at construction.                         *)
(***************************************************************************)
C24_ConfigurationUnchanged ==
  /\ provider._endpoints = options.endpoints
  /\ provider._providerType = options.providerType
  /\ provider._hydraAdminUrl = options.hydraAdminUrl
  /\ provider._hydraApiKey = options.hydraApiKey
  /\ provider._networkProjectUrl = options.networkProjectUrl
  /\ provider._networkProjectApiKey = options.networkProjectApiKey
  /\ provider.skipLocalPasswordGrant = FALSE
  /\ provider.skipLocalPkceValidation = TRUE
  /\ provider.revokeToken # Undefined <=> options.endpoints.revocationUrl \notin {Undefined, ""}
  /\ ClientsStore(provider).registerClient # Undefined
       <=> options.endpoints.registrationUrl \notin {Undefined, ""}

\* a provider offering both capabilities has revoked a token and is as constructed
C24_Witness ==
  /\ \E c \in Calls : IsRevoke(calls[c]) /\ Succeeded(calls[c])
  /\ provider.revokeToken = "function"
  /\ ClientsStore(provider).registerClient = "function"
  /\ provider.skipLocalPkceValidation


(***************************************************************************)
(* Vocabulary of the access-control claims.                                *)
(***************************************************************************)
IsAccessControl == accessControl.kind = "McpAccessControl"

\* the handler invocation has ended
HandlerDone == IsAccessControl /\ accessControl.handler.pc = "done"

\* the invocation's token passes jwtVerify when the key set is available
VerifiableJwt ==
  /\ accessControl.handler.token.signed
  /\ accessControl.handler.token.iss = accessControl.issuer
  /\ accessControl.handler.token.aud = accessControl.audience

\* the invocation's token carries the required claim
HasClaim == TruthyStr(Claim(accessControl.handler.token, accessControl.claimKey))

\* jwtVerify resolved with the payload of the token
Verified == accessControl.handler.payload = accessControl.handler.token

\* the text t has the word w
Mentions(t, w) == \E i \in 1..Len(t) : t[i] = w

\* the handler made the call
HandlerMade(what) ==
  \E i \in 1..Len(accessControl.handler.made) : accessControl.handler.made[i] = what

\* C25: the handler creates an identity only on first sight of a claim value: when
\* the backend already holds an identity for the claim, the handler does not call
\* createIdentity and a successful result is that identity, so the backend never
\* holds two identities for one claim value.
C25_CreatesOnlyOnFirstSight ==
  IsAccessControl =>
    /\ accessControl.handler.known # Undefined =>
         /\ ~HandlerMade("createIdentity")
         /\ HandlerDone /\ accessControl.handler.success =>
              accessControl.handler.identity.id = accessControl.handler.known
    /\ \A i, j \in 1..Len(accessControl.identities) :
         accessControl.identities[i].email = accessControl.identities[j].email => i = j

\* C26: the handler never throws; jwtVerify comes before any identity call; when
\* verification fails, the claim is missing or createIdentity fails, the handler
\* returns {success: false, error: message}; for a missing claim the message names
\* the claim and createIdentity was not called.
C26_HandlerNeverThrows ==
  IsAccessControl =>
    /\ accessControl.handler.outcome # "throw"
    /\ accessControl.handler.made \in
         {<<>>, <<"jwtVerify">>, <<"jwtVerify", "createIdentity">>}
    /\ HandlerDone =>
         /\ accessControl.handler.outcome = "return"
         /\ Verified => VerifiableJwt
         /\ ~Verified =>
              /\ ~accessControl.handler.success
              /\ accessControl.handler.error # <<>>
              /\ ~HandlerMade("createIdentity")
         /\ Verified /\ ~HasClaim =>
              /\ ~accessControl.handler.success
              /\ Mentions(accessControl.handler.error, "claim")
              /\ Mentions(accessControl.handler.error, accessControl.claimKey)
              /\ ~HandlerMade("createIdentity")
         /\ ~accessControl.handler.success =>
              /\ accessControl.handler.error # <<>>
              /\ accessControl.handler.identity = NoIdentity
         /\ accessControl.handler.success =>
              /\ Verified /\ HasClaim
              /\ accessControl.handler.made = <<"jwtVerify", "createIdentity">>
              /\ accessControl.handler.identity.email = accessControl.handler.claimValue
              /\ \E i \in 1..Len(accessControl.identities) :
                   accessControl.identities[i] = accessControl.handler.identity

\* a verified token without the claim was answered, with an identity in the backend
\* from an earlier call
C26_Witness ==
  /\ HandlerDone
  /\ Verified /\ ~HasClaim
  /\ ~accessControl.handler.success
  /\ Len(accessControl.identities) > 0

\* C27: verifyAccessToken returns successfully only if the client list fetched during
\* the call has a client whose client_id equals the introspected client_id, whatever
\* string the backend reports as client_id; getClient returns a value only for ids
\* present in the fetched list.
C27_LookupFindsOnlyListedClients ==
  \A c \in Calls :
    /\ (IsVerify(calls[c]) /\ Succeeded(calls[c])) =>
         /\ calls[c].clientsResponse.kind = "http" /\ Ok(calls[c].clientsResponse)
         /\ calls[c].introspection.client_id \in ListedIds(calls[c])
    /\ (IsGetClient(calls[c]) /\ Succeeded(calls[c]) /\ calls[c].value # UndefinedV) =>
         /\ calls[c].clientsResponse.kind = "http" /\ Ok(calls[c].clientsResponse)
         /\ calls[c].clientId \in ListedIds(calls[c])

\* the call received a 2xx client list with an element the schema refuses
MalformedListed(call) ==
  /\ call.clientsResponse.kind = "http" /\ Ok(call.clientsResponse)
  /\ \E i \in 1..Len(call.clientsResponse.json) :
       ~SchemaAccepts(call.clientsResponse.json[i])

\* C28: client-list validation is all-or-nothing: when one element of the backend's
\* client list fails schema validation, getClient fails for every clientId, also the
\* ids of the well-formed entries, and verifyAccessToken fails for every active
\* token; the malformed element is not skipped.
C28_ValidationAllOrNothing ==
  \A c \in Calls :
    MalformedListed(calls[c]) =>
      /\ Failed(calls[c])
      /\ calls[c].error = ZodError
      /\ calls[c].value = UndefinedV
      /\ IsGetClient(calls[c]) \/ (IsVerify(calls[c]) /\ IntrospectedActive(calls[c]))

\* getClient asked for the id of the well-formed entry of a list that also has a
\* malformed one
C28_Witness ==
  \E c \in Calls :
    /\ IsGetClient(calls[c]) /\ MalformedListed(calls[c])
    /\ calls[c].clientId \in ListedIds(calls[c])
    /\ Failed(calls[c])

\* C29: authorize writes its defaults back into the caller's params object: when it
\* has returned, params.state is non-empty and is the state parameter of the redirect
\* URL, params.scopes is ["ory.admin"] if it was the empty list on entry, and the
\* other members of params are as given (so are a state and scopes that needed no
\* default); between entry and return the client and the params as given stay as
\* they are.
C29_DefaultsWrittenBack ==
  /\ [](\A c \in Calls :
          (IsAuthorize(calls[c]) /\ Succeeded(calls[c])) =>
            /\ Redirected(calls[c])
            /\ TruthyText(calls[c].params.state)
            /\ HasParam(calls[c].redirects[1].search, "state")
            /\ calls[c].params.state = ParamValue(calls[c].redirects[1].search, "state")
            /\ TruthyText(calls[c].paramsGiven.state) =>
                 calls[c].params.state = calls[c].paramsGiven.state
            /\ calls[c].params.scopes =
                 IF calls[c].paramsGiven.scopes = <<>> THEN <<"ory.admin">>
                 ELSE calls[c].paramsGiven.scopes
            /\ calls[c].params.redirectUri = calls[c].paramsGiven.redirectUri
            /\ calls[c].params.codeChallenge = calls[c].paramsGiven.codeChallenge
            /\ calls[c].client \in Clients)
  /\ [][\A c \in Calls :
          (IsAuthorize(calls[c]) /\ IsAuthorize(calls'[c])) =>
            /\ calls'[c].client = calls[c].client
            /\ calls'[c].params = calls[c].params
            /\ calls'[c].paramsGiven = calls[c].paramsGiven]_vars

\* an authorize given no state and the empty scope list has returned, with both
\* written into params
C29_Witness ==
  \E c \in Calls :
    /\ IsAuthorize(calls[c]) /\ Succeeded(calls[c])
    /\ calls[c].paramsGiven.state = NoState /\ calls[c].paramsGiven.scopes = <<>>
    /\ Len(calls[c].params.state) = 64 /\ calls[c].params.scopes = <<"ory.admin">>

(***************************************************************************)
(* Vocabulary of the example-server claim.                                 *)
(***************************************************************************)
IsServer == server.kind = "server"

\* the sessions whose SSE connection the /sse route has opened and that has not
\* closed
OpenSessions ==
  {SessionIds[k] : k \in {j \in Connections :
                            /\ server.connections[j].pc = "open"
                            /\ ~server.connections[j].closed}}

\* the sessions the registry holds
RegisteredSessions == DOMAIN server.transports.own

\* C30: in the example server, under any interleaving of GET /sse, connection close
\* and POST /messages, the transports registry holds exactly the sessions whose SSE
\* connection was opened and has not yet closed; POST /messages hands a message to a
\* transport only when its sessionId is in the registry, and for any other sessionId
\* it responds 400 and handles no message.
C30_RegistryHoldsOpenSessions ==
  IsServer =>
    /\ RegisteredSessions = OpenSessions
    /\ server.post.handed => server.post.registered
    /\ (server.post.reached /\ ~server.post.registered) =>
         /\ server.post.status = 400
         /\ ~server.post.handed
====
